---- MODULE Spec2Model ----
(***************************************************************************)
(* Duplicate detection and merge engine of the media library backend.      *)
(*   backend/app/services/deduplication.py   (detection, merge, ignore)    *)
(*   backend/app/api/routes/duplicates.py    (request handlers, threads)   *)
(*   backend/app/models/{track,playlist,duplicate}.py   (tables)           *)
(*   backend/app/database.py                 (engine, session factory)     *)
(*                                                                         *)
(* Storage is SQLite through SQLAlchemy sessions made by                   *)
(* sessionmaker(autocommit=False, autoflush=False).  A session is modelled *)
(* by two copies of the tables: `flushed`, the rows as SQL inside the      *)
(* session's transaction sees them, and `mem`, the rows as the loaded ORM  *)
(* objects hold them.  A query filters on `flushed` (autoflush is off) and *)
(* hands back objects whose attributes are those of `mem`; flush() writes  *)
(* `mem` to `flushed` and checks the UNIQUE constraints; commit() flushes  *)
(* and makes `flushed` the committed database.  database.py never issues   *)
(* PRAGMA foreign_keys=ON, so the ON DELETE clauses of the tables are      *)
(* inert: deleting a track deletes that one row only.                      *)
(***************************************************************************)
EXTENDS Integers, Sequences, FiniteSets, TLC

\* ------------------------------------------------------------------ bounds
NTracks == 3
MaxPlayCount == 1
MaxOps == 2
MaxFaults == 1
MaxScans == 2

\* None stands for SQL NULL / Python None in an integer column.
None == 0 - 1

TrackIds == 1..NTracks
\* one id that no table holds, for requests that name a missing row
GhostId == NTracks + 1
GroupIds == 1..NTracks

Falsy(x) == x = None \/ x = 0

\* F(v).  TLC evaluates a LET definition or an operator's argument anew at
\* every use when it computes ENABLED; a bound variable holds a value.
Let(v, F(_)) == CHOOSE r \in {F(x) : x \in {v}} : TRUE

RECURSIVE SeqSum(_)
SeqSum(s) == IF s = <<>> THEN 0 ELSE Head(s) + SeqSum(Tail(s))

RECURSIVE SetToSeq(_)
\* ascending order: the order of rows returned by a rowid scan
SetToSeq(S) ==
    IF S = {} THEN <<>>
    ELSE LET m == CHOOSE x \in S : \A y \in S : x <= y
         IN <<m>> \o SetToSeq(S \ {m})

\* ------------------------------------------------------------------ tables
\* models/track.py Track: the columns the engine reads or writes.
NoTrack ==
    [present |-> FALSE, file_hash |-> "", title |-> "", duration_ms |-> None,
     title_normalized |-> "", artist_normalized |-> "", album_normalized |-> "",
     bitrate |-> None,
     sample_rate |-> None, format |-> "", file_size |-> None,
     metadata_completeness |-> None, artwork_path |-> "", year |-> None,
     genre |-> "", album |-> "", artist |-> "", track_number |-> None,
     play_count |-> None]

\* models/duplicate.py DuplicateGroup with its DuplicateGroupMember rows
\* (members: in insertion order, the order of the relationship's load).
NoGroup ==
    [present |-> FALSE, group_hash |-> {}, detection_type |-> "",
     detection_reason |-> "", status |-> "", master_track_id |-> None,
     resolved_at |-> None, members |-> <<>>]

PlaylistIds == {1}

\* A database: every table the engine touches.
\*   tracks[t]   the tracks row with id t
\*   hist[i]     track_id of play_history row i        (None: no such row)
\*   pt[p][i]    track_id of row i of playlist p       (models/playlist.py)
\*   likes[i]    track_id of liked_songs row i, whose liked_at is i
\*   groups[g]   the duplicate_groups row g with its member rows
EmptyRows == [i \in TrackIds |-> None]

NoStore ==
    [tracks |-> [t \in TrackIds |-> NoTrack], hist |-> EmptyRows,
     pt |-> [p \in PlaylistIds |-> EmptyRows], likes |-> EmptyRows,
     groups |-> [g \in GroupIds |-> NoGroup]]

\* ------------------------------------------------------------------ session
\* database.py:11  SessionLocal = sessionmaker(autocommit=False, autoflush=False)
NewSession(db0) == [flushed |-> db0, mem |-> db0, state |-> "active"]

\* flush() turns a pending delete into a removed row
Canon(st) ==
    [st EXCEPT !.tracks =
        [t \in TrackIds |-> IF st.tracks[t].present THEN st.tracks[t] ELSE NoTrack]]

\* models/track.py:69 liked_songs.track_id unique;
\* models/duplicate.py:14 duplicate_groups.group_hash unique
UniqueOK(st) ==
    /\ \A i, j \in TrackIds :
          (i # j /\ st.likes[i] # None) => st.likes[i] # st.likes[j]
    /\ \A g, h \in GroupIds :
          (g # h /\ st.groups[g].present /\ st.groups[h].present)
             => st.groups[g].group_hash # st.groups[h].group_hash

\* Session.flush(): returns <<session, raised>>.  A failed flush rolls the
\* transaction back and leaves the session inactive until rollback().
Flush(sess, db0) ==
    IF UniqueOK(sess.mem)
    THEN <<[sess EXCEPT !.flushed = Canon(sess.mem), !.mem = Canon(sess.mem)], FALSE>>
    ELSE <<[flushed |-> db0, mem |-> db0, state |-> "inactive"], TRUE>>

\* Session.commit(): flush, then make the transaction durable.  When the
\* flush inside commit() fails, commit() rolls the session back itself and
\* the session is usable again.  Returns <<session, database, raised>>.
Commit(sess, db0) ==
    IF UniqueOK(sess.mem)
    THEN <<NewSession(Canon(sess.mem)), Canon(sess.mem), FALSE>>
    ELSE <<NewSession(db0), db0, TRUE>>

\* ------------------------------------------------------------------ scoring
\* normalizer.py calculate_completeness: fixed weights over present fields
calculate_completeness(t) ==
      (IF t.title # "" THEN 20 ELSE 0)
    + (IF t.artist # "" THEN 25 ELSE 0)
    + (IF t.album # "" THEN 15 ELSE 0)
    + (IF ~Falsy(t.year) THEN 10 ELSE 0)
    + (IF t.genre # "" THEN 10 ELSE 0)
    + (IF t.artwork_path # "" THEN 10 ELSE 0)
    + (IF ~Falsy(t.track_number) THEN 5 ELSE 0)
    + (IF ~Falsy(t.bitrate) THEN 5 ELSE 0)

\* str.upper() on the container names the library holds
Upper(f) ==
    CASE f = "flac" -> "FLAC"
      [] f = "mp3" -> "MP3"
      [] OTHER -> f

\* deduplication.py FORMAT_SCORES.get(format_name, 50)
FORMAT_SCORES(f) ==
    CASE f = "FLAC" -> 100
      [] f = "WAV" -> 95
      [] f = "ALAC" -> 90
      [] f = "M4A" -> 80
      [] f = "AAC" -> 75
      [] f = "OGG" -> 70
      [] f = "MP3" -> 60
      [] f = "WMA" -> 50
      [] OTHER -> 50

Min(a, b) == IF a < b THEN a ELSE b

\* The score is round(score * 100, 2): a number of hundredths of a point.
\* It is computed here exactly, in units of 1/(100 * 2^18) of a point, the
\* common denominator of the six terms (50 MiB * 100 / 1000 = 2^18 * 20):
\*   bitrate      min(b/320, 1) * 0.25      = min(b,320) * 2048000   units
\*   sample rate  min(r/96000, 1) * 0.15    = min(r,96000) * 4096
\*   format       FORMAT_SCORES/100 * 0.20  = fs * 5242880
\*   completeness c/100 * 0.20              = c * 5242880
\*   artwork      0.10                      = 262144000
\*   file size    min(s/50MiB, 1) * 0.10    = min(s, 52428800) * 5
\* and rounded half-to-even like Python's round.  Quotients and remainders
\* are summed apart so that no intermediate value leaves 32 bits.
ScoreUnit == 262144

ScoreTerms(t) ==
    << IF ~Falsy(t.bitrate) THEN Min(t.bitrate, 320) * 2048000 ELSE 0,
       IF ~Falsy(t.sample_rate) THEN Min(t.sample_rate, 96000) * 4096 ELSE 0,
       FORMAT_SCORES(IF t.format # "" THEN Upper(t.format) ELSE "") * 5242880,
       (IF ~Falsy(t.metadata_completeness) THEN t.metadata_completeness
        ELSE calculate_completeness(t)) * 5242880,
       IF t.artwork_path # "" THEN 262144000 ELSE 0,
       IF ~Falsy(t.file_size) THEN Min(t.file_size, 52428800) * 5 ELSE 0 >>

calculate_quality_score(t) ==
    Let(ScoreTerms(t), LAMBDA terms :
    Let(<<SeqSum([i \in 1..6 |-> terms[i] \div ScoreUnit]),
          SeqSum([i \in 1..6 |-> terms[i] % ScoreUnit])>>, LAMBDA qr :
        LET whole == qr[1] + (qr[2] \div ScoreUnit)
            frac == qr[2] % ScoreUnit
        IN IF 2 * frac > ScoreUnit \/ (2 * frac = ScoreUnit /\ whole % 2 = 1)
           THEN whole + 1 ELSE whole))

\* ------------------------------------------------------------------ group builder
RECURSIVE InsertByScore_BeforeEqual(_, _)
\* a sort that is not stable: an element goes before those of equal score
InsertByScore_BeforeEqual(sorted, x) ==
    IF sorted = <<>> THEN <<x>>
    ELSE IF Head(sorted).quality_score > x.quality_score
         THEN <<Head(sorted)>> \o InsertByScore_BeforeEqual(Tail(sorted), x)
         ELSE <<x>> \o sorted

RECURSIVE InsertByScore(_, _)
\* list.sort(key=score, reverse=True) is stable: an element goes after every
\* element whose score is greater than or equal to its own
InsertByScore(sorted, x) ==
    IF sorted = <<>> THEN <<x>>
    ELSE IF Head(sorted).quality_score >= x.quality_score
         THEN <<Head(sorted)>> \o InsertByScore(Tail(sorted), x)
         ELSE <<x>> \o sorted

RECURSIVE SortByScore(_)
SortByScore(s) ==
    IF s = <<>> THEN <<>>
    ELSE Let(SortByScore(SubSeq(s, 1, Len(s) - 1)),
             LAMBDA sorted : InsertByScore(sorted, s[Len(s)]))

\* INTEGER PRIMARY KEY of SQLite: one more than the largest id in the table
NextGroupId(st) ==
    LET used == {g \in GroupIds : st.groups[g].present}
    IN IF used = {} THEN 1 ELSE (CHOOSE g \in used : \A h \in used : h <= g) + 1

\* deduplication.py _create_duplicate_group: `ids` is the cluster in input
\* order, `tracks` the loaded Track objects.  The group row is flushed at
\* once (db.flush()), the member rows stay pending; the model holds both in
\* the group record.  md5 of the sorted id list is injective on id sets, so
\* group_hash is the id set.
_create_duplicate_group(st, tracks, ids, detection_type, detection_reason) ==
    LET scored == [i \in 1..Len(ids) |->
                     [track_id |-> ids[i],
                      quality_score |-> calculate_quality_score(tracks[ids[i]]),
                      is_master |-> FALSE]]
        gid == NextGroupId(st)
    IN Let(SortByScore(scored), LAMBDA sorted :
        [st EXCEPT !.groups[gid] =
          [present |-> TRUE,
           group_hash |-> {ids[i] : i \in 1..Len(ids)},
           detection_type |-> detection_type,
           detection_reason |-> detection_reason,
           status |-> "unresolved",
           master_track_id |-> sorted[1].track_id,
           resolved_at |-> None,
           members |-> [i \in 1..Len(sorted) |->
                          [sorted[i] EXCEPT !.is_master = (i = 1)]]]])

\* ------------------------------------------------------------------ detection
\* db.query(Track).all(): the ids of the present rows, in rowid order
AllTrackIds(st) == SetToSeq({t \in TrackIds : st.tracks[t].present})

SeqRange(s) == {s[i] : i \in 1..Len(s)}

\* a partitioner that takes "no hash" for a hash like any other
_find_exact_hash_duplicates_NullBucket(tracks, ids) ==
    LET first(i) == \A j \in 1..(i - 1) :
                       tracks[ids[j]].file_hash # tracks[ids[i]].file_hash
        bucket(i) == SelectSeq(ids, LAMBDA t : tracks[t].file_hash = tracks[ids[i]].file_hash)
        firsts == SelectSeq([i \in 1..Len(ids) |-> i], first)
        buckets == [k \in 1..Len(firsts) |-> bucket(firsts[k])]
    IN SelectSeq(buckets, LAMBDA b : Len(b) > 1)

\* deduplication.py _find_exact_hash_duplicates: buckets in the order their
\* hash is first met (dict order), members in input order, buckets of one
\* dropped; a track with no hash joins no bucket.
_find_exact_hash_duplicates(tracks, ids) ==
    LET hashed(i) == tracks[ids[i]].file_hash # ""
        first(i) == hashed(i) /\ \A j \in 1..(i - 1) :
                       tracks[ids[j]].file_hash # tracks[ids[i]].file_hash
        bucket(i) == SelectSeq(ids, LAMBDA t : tracks[t].file_hash = tracks[ids[i]].file_hash)
        firsts == SelectSeq([i \in 1..Len(ids) |-> i], first)
        buckets == [k \in 1..Len(firsts) |-> bucket(firsts[k])]
    IN SelectSeq(buckets, LAMBDA b : Len(b) > 1)

\* normalizer.py normalize_title / normalize_artist / normalize_album on the
\* strings the library holds: NFKC, lowercase, punctuation and whitespace
\* folding; none of them starts with an article.  None (here "") for "".
normalize_string(s) ==
    CASE s = "Song" -> "song"
      [] s = "X" -> "x"
      [] s = "Album" -> "album"
      [] OTHER -> s

\* `track.title_normalized or normalizer.normalize_title(track.title)`
Norm(stored, raw) == IF stored # "" THEN stored ELSE normalize_string(raw)

\* difflib.SequenceMatcher(None, a, b).ratio() in thousandths, on normalized
\* strings of the library: 1.0 for equal strings; two different ones among
\* them have no block in common
SequenceMatcherRatio(a, b) == IF a = b THEN 1000 ELSE 0

\* deduplication.py _calculate_metadata_similarity: the weighted ratios that
\* apply, as <<sum, count>> with the sum in units of 1/100000; the result
\* of the code is sum / max(count, 1)
_calculate_metadata_similarity(track1, track2) ==
    LET title1 == Norm(track1.title_normalized, track1.title)
        title2 == Norm(track2.title_normalized, track2.title)
        artist1 == Norm(track1.artist_normalized, track1.artist)
        artist2 == Norm(track2.artist_normalized, track2.artist)
        album1 == Norm(track1.album_normalized, track1.album)
        album2 == Norm(track2.album_normalized, track2.album)
        title == IF title1 # "" /\ title2 # ""
                 THEN <<SequenceMatcherRatio(title1, title2) * 50>> ELSE <<>>
        artist == IF artist1 # "" /\ artist2 # ""
                  THEN <<SequenceMatcherRatio(artist1, artist2) * 35>>
                  ELSE IF artist1 = "" /\ artist2 = "" THEN <<35000>> ELSE <<>>
        album == IF album1 # "" /\ album2 # ""
                 THEN <<SequenceMatcherRatio(album1, album2) * 15>> ELSE <<>>
        scores == title \o artist \o album
    IN <<SeqSum(scores), Len(scores)>>

\* deduplication.py:97 and 234: similarity >= FUZZY_THRESHOLD (0.85)
FUZZY_THRESHOLD == 85000

\* a threshold test on the sum of the weighted ratios, not on their mean
Similar_WeightedSum(track1, track2) ==
    _calculate_metadata_similarity(track1, track2)[1] >= FUZZY_THRESHOLD

Similar(track1, track2) ==
    LET sim == _calculate_metadata_similarity(track1, track2)
    IN sim[2] > 0 /\ sim[1] >= FUZZY_THRESHOLD * sim[2]

\* deduplication.py:100
DURATION_TOLERANCE_MS == 2000

Abs(x) == IF x < 0 THEN 0 - x ELSE x

_duration_matches(track1, track2) ==
    IF Falsy(track1.duration_ms) \/ Falsy(track2.duration_ms) THEN TRUE
    ELSE Abs(track1.duration_ms - track2.duration_ms) <= DURATION_TOLERANCE_MS

RECURSIVE FuzzyFrom(_, _, _, _, _)
\* deduplication.py:217-241, from the i-th track on; acc.groups are the
\* clusters so far, acc.last the index of the last track that was a seed
FuzzyFrom(tracks, ids, i, processed, acc) ==
    IF i > Len(ids) THEN acc
    ELSE IF ids[i] \in processed THEN FuzzyFrom(tracks, ids, i + 1, processed, acc)
    ELSE LET track1 == tracks[ids[i]]
             rest == SubSeq(ids, i + 1, Len(ids))
             joined == SelectSeq(rest, LAMBDA t :
                          /\ t \notin processed
                          /\ Similar(track1, tracks[t])
                          /\ _duration_matches(track1, tracks[t]))
             group == <<ids[i]>> \o joined
         IN Let(<<processed \cup SeqRange(group),
                  [groups |-> IF Len(group) > 1 THEN Append(acc.groups, group)
                              ELSE acc.groups,
                   last |-> i]>>,
                LAMBDA nxt : FuzzyFrom(tracks, ids, i + 1, nxt[1], nxt[2]))

\* deduplication.py _find_fuzzy_metadata_duplicates
_find_fuzzy_metadata_duplicates(tracks, ids) ==
    FuzzyFrom(tracks, ids, 1, {}, [groups |-> <<>>, last |-> 0])

\* buckets of 5 seconds that start at the multiples of 5000
DurationBucket_Floor(d) == (d \div 5000) * 5000

\* round(duration_ms / 5000) * 5000, Python's round: half to even
DurationBucket(d) ==
    LET q == d \div 5000
        r == d % 5000
    IN (IF r > 2500 \/ (r = 2500 /\ q % 2 = 1) THEN q + 1 ELSE q) * 5000

\* the key of deduplication.py:252-258, <<>> for a track that gets none
DurationKey(t) ==
    IF Falsy(t.duration_ms) \/ t.title = "" THEN <<>>
    ELSE IF Norm(t.title_normalized, t.title) = "" THEN <<>>
    ELSE <<Norm(t.title_normalized, t.title), DurationBucket(t.duration_ms)>>

\* deduplication.py _find_duration_duplicates: buckets in the order their
\* key is first met, members in input order, buckets of one dropped
_find_duration_duplicates(tracks, ids) ==
    LET keyed(i) == DurationKey(tracks[ids[i]]) # <<>>
        first(i) == keyed(i) /\ \A j \in 1..(i - 1) :
                       DurationKey(tracks[ids[j]]) # DurationKey(tracks[ids[i]])
        bucket(i) == SelectSeq(ids, LAMBDA t :
                        DurationKey(tracks[t]) = DurationKey(tracks[ids[i]]))
        firsts == SelectSeq([i \in 1..Len(ids) |-> i], first)
        buckets == [k \in 1..Len(firsts) |-> bucket(firsts[k])]
    IN SelectSeq(buckets, LAMBDA b : Len(b) > 1)

\* ------------------------------------------------------------------ pass
Unresolved(st) ==
    {g \in GroupIds : st.groups[g].present /\ st.groups[g].status = "unresolved"}

\* a clearing that takes every group, whatever its status
ClearUnresolved_All(st) ==
    [st EXCEPT !.groups = [g \in GroupIds |-> NoGroup]]

\* deduplication.py:118-123: the two bulk deletes
ClearUnresolved(st) ==
    [st EXCEPT !.groups =
        [g \in GroupIds |-> IF g \in Unresolved(st) THEN NoGroup ELSE st.groups[g]]]

\* detection_type and detection_reason of the three phases
PhaseKind(pc) ==
    CASE pc = "hash" -> <<"exact_hash", "Identical file content">>
      [] pc = "fuzzy" -> <<"fuzzy_metadata", "Similar metadata">>
      [] OTHER -> <<"duration_match", "Same duration and similar title">>

\* every track is offered to the later phases, claimed or not
Remaining_All(all_tracks, seen) == all_tracks

\* remaining_tracks of lines 149 and 165
Remaining(all_tracks, seen) == SelectSeq(all_tracks, LAMBDA t : t \notin seen)

\* the clusters a phase's partitioner hands back (lines 134, 150, 166)
PhaseClusters(tracks, all_tracks, seen, pc) ==
    CASE pc = "hash" -> _find_exact_hash_duplicates(tracks, all_tracks)
      [] pc = "fuzzy" ->
            _find_fuzzy_metadata_duplicates(tracks, Remaining(all_tracks, seen)).groups
      [] OTHER -> _find_duration_duplicates(tracks, Remaining(all_tracks, seen))

RECURSIVE CreatePhaseGroups(_, _, _, _, _)
\* deduplication.py:135-145 (151-161, 167-177): a group for every cluster of
\* two or more none of whose tracks is in a group of this pass yet.
\* ctx = [view, seen, duplicate_groups, exc].  The flush of a group row whose
\* group_hash some row already has raises IntegrityError.
CreatePhaseGroups(ctx, tracks, clusters, k, kind) ==
    IF k > Len(clusters) \/ ctx.exc # "" THEN ctx
    ELSE LET ids == clusters[k]
         IN IF Len(ids) <= 1 \/ SeqRange(ids) \cap ctx.seen # {}
            THEN CreatePhaseGroups(ctx, tracks, clusters, k + 1, kind)
            ELSE IF \E g \in GroupIds : /\ ctx.view.groups[g].present
                                        /\ ctx.view.groups[g].group_hash = SeqRange(ids)
            THEN [ctx EXCEPT !.exc = "IntegrityError"]
            ELSE Let([view |-> _create_duplicate_group(ctx.view, tracks, ids, kind[1], kind[2]),
                      seen |-> ctx.seen \cup SeqRange(ids),
                      duplicate_groups |-> Append(ctx.duplicate_groups, NextGroupId(ctx.view)),
                      exc |-> ""],
                     LAMBDA c : CreatePhaseGroups(c, tracks, clusters, k + 1, kind))

\* one phase of find_all_duplicates on the tracks loaded at line 126
PassPhase(ctx, tracks, all_tracks, pc) ==
    Let(PhaseClusters(tracks, all_tracks, ctx.seen, pc),
        LAMBDA clusters : CreatePhaseGroups(ctx, tracks, clusters, 1, PhaseKind(pc)))

TitleOrPath(t) == IF t.title # "" THEN t.title ELSE "(file_path)"

\* The tracker after a phase's partitioner has run (lines 132-133 and
\* 204-206; 148 and 221-224; 164 and 261-264): the values of the last
\* iteration that wrote them.  int(x * 0.3) etc. are computed in integers,
\* which agrees with the floating point of the code for libraries this small.
PhaseProgress(p, tracks, all_tracks, seen, pc) ==
    LET rem == Remaining(all_tracks, seen)
        n == Len(rem)
        last == _find_fuzzy_metadata_duplicates(tracks, rem).last
    IN CASE pc = "hash" ->
              IF all_tracks = <<>>
              THEN [p EXCEPT !.phase = "hash_matching",
                             !.current_track = "Analyzing file hashes..."]
              ELSE [p EXCEPT !.phase = "hash_matching",
                             !.processed_tracks = Len(all_tracks),
                             !.current_track =
                                 TitleOrPath(tracks[all_tracks[Len(all_tracks)]])]
         [] pc = "fuzzy" ->
              IF n = 0 THEN [p EXCEPT !.phase = "fuzzy_matching"]
              ELSE [p EXCEPT !.phase = "fuzzy_matching",
                             !.current_track = "Comparing: " \o
                                 (IF tracks[rem[last]].title # ""
                                  THEN tracks[rem[last]].title ELSE "Unknown"),
                             !.processed_tracks =
                                 ((p.total_tracks * 3) \div 10)
                                 + (((last - 1) * p.total_tracks * 5) \div (n * 10))]
         [] OTHER ->
              IF n = 0 THEN [p EXCEPT !.phase = "duration_matching"]
              ELSE [p EXCEPT !.phase = "duration_matching",
                             !.current_track = TitleOrPath(tracks[rem[n]]),
                             !.processed_tracks =
                                 ((p.total_tracks * 8) \div 10)
                                 + (((n - 1) * p.total_tracks * 2) \div (n * 10))]

\* lines 144-145: groups_found = len(duplicate_groups); duplicates_found =
\* sum(len(g.members) - 1 ...).  g.members of a group just flushed is loaded
\* from the table on first use, and the member rows are still pending
\* (autoflush is off), so each group counts len([]) - 1.
GroupsProgress(p, duplicate_groups) ==
    [p EXCEPT !.groups_found = Len(duplicate_groups),
              !.duplicates_found = 0 - Len(duplicate_groups)]

\* _group_to_dict reads m.track.id of every member: AttributeError on a
\* member whose track row is gone
GroupsReadable(st, gids) ==
    \A i \in 1..Len(gids) : \A j \in 1..Len(st.groups[gids[i]].members) :
        st.tracks[st.groups[gids[i]].members[j].track_id].present

\* lines 184-188, and 118-122 of the list route: the answer with the groups
GroupResult(st, gids) ==
    [total_groups |-> Len(gids),
     total_duplicates |-> SeqSum([i \in 1..Len(gids) |-> Len(st.groups[gids[i]].members) - 1]),
     groups |-> gids]

\* ------------------------------------------------------------------ merge
OrZero(x) == IF Falsy(x) THEN 0 ELSE x

\* a merge that fills the empty fields but leaves the keep track's count alone
MergeMetadata_KeepCount(kt, dt) ==
    [kt EXCEPT
       !.year = IF Falsy(kt.year) /\ ~Falsy(dt.year) THEN dt.year ELSE kt.year,
       !.play_count = OrZero(kt.play_count)]

\* deduplication.py:494-507: fill the keep track's empty fields from the
\* discard, then add the play counts (None counts as 0)
MergeMetadata(kt, dt) ==
    [kt EXCEPT
       !.year = IF Falsy(kt.year) /\ ~Falsy(dt.year) THEN dt.year ELSE kt.year,
       !.genre = IF kt.genre = "" /\ dt.genre # "" THEN dt.genre ELSE kt.genre,
       !.artwork_path = IF kt.artwork_path = "" /\ dt.artwork_path # ""
                        THEN dt.artwork_path ELSE kt.artwork_path,
       !.album = IF kt.album = "" /\ dt.album # "" THEN dt.album ELSE kt.album,
       !.track_number = IF Falsy(kt.track_number) /\ ~Falsy(dt.track_number)
                        THEN dt.track_number ELSE kt.track_number,
       !.play_count = OrZero(kt.play_count) + OrZero(dt.play_count)]

\* deduplication.py:453-475: re-key the discard's history rows and playlist
\* rows.  The rows are found by SQL (flushed state); `existing` is a query
\* too, so a re-key still pending in the session is not seen by it.
TransferHistory(f, m, keep, d) ==
    [m EXCEPT !.hist = [i \in TrackIds |-> IF f.hist[i] = d THEN keep ELSE m.hist[i]]]

PlaylistExisting(f, p, keep) == \E j \in TrackIds : f.pt[p][j] = keep

TransferPlaylists(f, m, keep, d) ==
    [m EXCEPT !.pt = [p \in PlaylistIds |-> [i \in TrackIds |->
        IF f.pt[p][i] # d THEN m.pt[p][i]
        ELSE IF PlaylistExisting(f, p, keep) \/ m.pt[p][i] = None THEN None
        ELSE keep]]]

PlaylistsMoved(f, keep, d) ==
    Cardinality({pi \in PlaylistIds \X TrackIds :
                    f.pt[pi[1]][pi[2]] = d /\ ~PlaylistExisting(f, pi[1], keep)})

\* deduplication.py:448-518, one iteration of the loop over delete_track_ids.
\* ctx = [sess, files, deleted_files, ph, pl, lk, exc]
MergeDiscard(ctx, db0, keep, d, delete_files, rmfail) ==
    LET f == ctx.sess.flushed
        m0 == ctx.sess.mem
    IN IF ~f.tracks[d].present THEN ctx
       ELSE
       LET m2 == TransferPlaylists(f, TransferHistory(f, m0, keep, d), keep, d)
           nh == Cardinality({i \in TrackIds : f.hist[i] = d})
           np == PlaylistsMoved(f, keep, d)
           likedRows == {i \in TrackIds : f.likes[i] = d}
           liked == likedRows # {}
           row == IF liked THEN CHOOSE i \in likedRows : \A j \in likedRows : i <= j
                  ELSE None
           existing_liked == \E j \in TrackIds : f.likes[j] = keep
           \* db.delete(liked); db.flush()
           fl == IF liked
                 THEN Flush([ctx.sess EXCEPT !.mem = [m2 EXCEPT !.likes[row] = None]], db0)
                 ELSE <<[ctx.sess EXCEPT !.mem = m2], FALSE>>
       IN IF fl[2]
          THEN [ctx EXCEPT !.sess = fl[1], !.exc = "IntegrityError",
                           !.ph = @ + nh, !.pl = @ + np]
          ELSE
          LET m3 == fl[1].mem
              m4 == IF liked /\ ~existing_liked
                    THEN [m3 EXCEPT !.likes[row] = keep] ELSE m3
              m5 == [m4 EXCEPT !.tracks[keep] = MergeMetadata(m4.tracks[keep], m4.tracks[d])]
              removes == delete_files /\ d \in ctx.files /\ d \notin rmfail
              m6 == [m5 EXCEPT !.tracks[d].present = FALSE]
          IN [sess |-> [fl[1] EXCEPT !.mem = m6],
              files |-> IF removes THEN ctx.files \ {d} ELSE ctx.files,
              deleted_files |-> IF removes THEN Append(ctx.deleted_files, d)
                                ELSE ctx.deleted_files,
              ph |-> ctx.ph + nh,
              pl |-> ctx.pl + np,
              lk |-> ctx.lk + (IF liked /\ ~existing_liked THEN 1 ELSE 0),
              exc |-> ""]

RECURSIVE MergeLoop(_, _, _, _, _, _, _, _)
\* `fault` = k > 0: the storage raises sqlite3.OperationalError from the
\* first query of the k-th iteration (deduplication.py:449); 0: it never does
MergeLoop(ctx, db0, keep, ids, k, delete_files, rmfail, fault) ==
    IF k > Len(ids) \/ ctx.exc # "" THEN ctx
    ELSE IF fault = k THEN [ctx EXCEPT !.exc = "OperationalError"]
    ELSE MergeLoop(MergeDiscard(ctx, db0, keep, ids[k], delete_files, rmfail),
                   db0, keep, ids, k + 1, delete_files, rmfail, fault)

MergeFailed(db0, sess, files, reason) ==
    [db |-> db0, sess |-> sess, files |-> files, ok |-> FALSE, error |-> reason,
     deleted_tracks |-> 0, deleted_files |-> <<>>,
     transfers |-> [play_history |-> 0, playlists |-> 0, likes |-> 0]]

\* the checks without the membership check of line 441
MergeValidate_NoMemberCheck(sess, group_id, keep_track_id) ==
    IF sess.state = "inactive" THEN "PendingRollbackError"
    ELSE IF ~(group_id \in GroupIds /\ sess.flushed.groups[group_id].present)
    THEN "Duplicate group not found"
    ELSE IF ~(keep_track_id \in TrackIds /\ sess.flushed.tracks[keep_track_id].present)
    THEN "Track to keep not found"
    ELSE ""

\* deduplication.py:431-442, the three checks before anything is changed
MergeValidate(sess, group_id, keep_track_id) ==
    IF sess.state = "inactive" THEN "PendingRollbackError"
    ELSE IF ~(group_id \in GroupIds /\ sess.flushed.groups[group_id].present)
    THEN "Duplicate group not found"
    ELSE IF ~(keep_track_id \in TrackIds /\ sess.flushed.tracks[keep_track_id].present)
    THEN "Track to keep not found"
    ELSE IF \A i \in 1..Len(sess.mem.groups[group_id].members) :
               sess.mem.groups[group_id].members[i].track_id # keep_track_id
    THEN "Track to keep is not in this duplicate group"
    ELSE ""

\* deduplication.py merge_duplicates, on session `sess` over the committed
\* database db0 at clock `clock`.  Returns the committed database, the
\* session and the file system after the call, and the result or the error.
merge_duplicates(db0, sess, files, clock, group_id, keep_track_id, delete_files, rmfail, fault) ==
    LET invalid == MergeValidate(sess, group_id, keep_track_id)
    IN IF invalid # "" THEN MergeFailed(db0, sess, files, invalid)
       ELSE
       LET members == sess.mem.groups[group_id].members
           member_track_ids == [i \in 1..Len(members) |-> members[i].track_id]
           delete_track_ids == SelectSeq(member_track_ids, LAMBDA t : t # keep_track_id)
           ctx0 == [sess |-> sess, files |-> files, deleted_files |-> <<>>,
                    ph |-> 0, pl |-> 0, lk |-> 0, exc |-> ""]
           ctx == MergeLoop(ctx0, db0, keep_track_id, delete_track_ids, 1,
                            delete_files, rmfail, fault)
       IN IF ctx.exc # "" THEN MergeFailed(db0, ctx.sess, ctx.files, ctx.exc)
          ELSE
          LET marked == [ctx.sess EXCEPT
                           !.mem.groups[group_id].status = "resolved",
                           !.mem.groups[group_id].resolved_at = clock,
                           !.mem.groups[group_id].master_track_id = keep_track_id]
              cm == Commit(marked, db0)
          IN IF cm[3] THEN MergeFailed(db0, cm[1], ctx.files, "IntegrityError")
             ELSE [db |-> cm[2], sess |-> cm[1], files |-> ctx.files, ok |-> TRUE,
                   error |-> "", deleted_tracks |-> Len(delete_track_ids),
                   deleted_files |-> ctx.deleted_files,
                   transfers |-> [play_history |-> ctx.ph, playlists |-> ctx.pl,
                                  likes |-> ctx.lk]]

\* an ignore that also drops the member rows of the group
ignore_group_DropMembers(db0, clock, group_id) ==
    IF ~(group_id \in GroupIds /\ db0.groups[group_id].present)
    THEN [db |-> db0, ok |-> FALSE, error |-> "Duplicate group not found"]
    ELSE [db |-> [db0 EXCEPT !.groups[group_id].status = "ignored",
                             !.groups[group_id].resolved_at = clock,
                             !.groups[group_id].members = <<>>],
          ok |-> TRUE, error |-> ""]

\* deduplication.py:535-545 ignore_group, on the request's own session
ignore_group(db0, clock, group_id) ==
    IF ~(group_id \in GroupIds /\ db0.groups[group_id].present)
    THEN [db |-> db0, ok |-> FALSE, error |-> "Duplicate group not found"]
    ELSE [db |-> [db0 EXCEPT !.groups[group_id].status = "ignored",
                             !.groups[group_id].resolved_at = clock],
          ok |-> TRUE, error |-> ""]

\* ------------------------------------------------------------------ state
VARIABLES
    db,        \* the committed database
    files,     \* ids of the tracks whose backing file exists on disk
    loop,      \* the request handler running on the event loop, if any
    resp,      \* outcome of the last service call a handler made
    now,       \* the clock: the last datetime.utcnow() value stored in the database
    faults,    \* storage failures (sqlite3.OperationalError) raised so far
    progress,  \* duplicate_detection_progress, the one shared tracker
    scan_result, \* routes/duplicates.py:20 _scan_result
    threads,   \* the detection passes started so far, each with its position
    reply      \* what the last scan route answered

scanvars == <<progress, scan_result, threads, reply>>

vars == <<db, files, loop, resp, now, faults, progress, scan_result, threads, reply>>

\* route, was_running: the scan route being handled and the value of
\* is_running its handler read
IdleLoop == [pc |-> "idle", sess |-> NewSession(db), route |-> "", was_running |-> FALSE]

\* What a handler sends back.  A merge that succeeds answers with
\* kept_track_id, deleted_tracks, deleted_files and transfers (lines 527-533);
\* one that raises answers with the reason (HTTP 400 detail for a ValueError,
\* error_details of the bulk route).
NoResp ==
    [route |-> "", ok |-> FALSE, error |-> "", kept_track_id |-> None,
     deleted_tracks |-> 0, deleted_files |-> <<>>,
     transfers |-> [play_history |-> 0, playlists |-> 0, likes |-> 0]]

MergeResp(route, r, k) ==
    [route |-> route, ok |-> r.ok, error |-> r.error,
     kept_track_id |-> IF r.ok THEN k ELSE None,
     deleted_tracks |-> r.deleted_tracks,
     deleted_files |-> r.deleted_files, transfers |-> r.transfers]

\* ------------------------------------------------------------------ progress
\* deduplication.py DuplicateDetectionProgress.__init__ and reset(): the
\* same eight values (error: "" for None)
reset ==
    [is_running |-> FALSE, phase |-> "idle", total_tracks |-> 0,
     processed_tracks |-> 0, current_track |-> "", groups_found |-> 0,
     duplicates_found |-> 0, error |-> ""]

\* the `progress` property rounded by to_dict: round(p / t * 100, 1), in
\* tenths of a percent
Percent(p) ==
    IF p.total_tracks = 0 THEN 0
    ELSE LET n == p.processed_tracks * 1000
             q == n \div p.total_tracks
             r == n % p.total_tracks
         IN IF 2 * r > p.total_tracks \/ (2 * r = p.total_tracks /\ q % 2 = 1)
            THEN q + 1 ELSE q

\* deduplication.py to_dict
to_dict(p) ==
    [is_running |-> p.is_running, phase |-> p.phase,
     total_tracks |-> p.total_tracks, processed_tracks |-> p.processed_tracks,
     current_track |-> p.current_track, progress |-> Percent(p),
     groups_found |-> p.groups_found, duplicates_found |-> p.duplicates_found,
     error |-> p.error]

\* the dictionary find_all_duplicates returns (lines 184-188); NoData is None
NoData == [total_groups |-> None, total_duplicates |-> None, groups |-> <<>>]

NoScanResult == [data |-> NoData, completed |-> FALSE]

\* A detection pass: a thread running _run_duplicate_scan, or the event loop
\* running find_all_duplicates for a request with background=false.
\*   pc            where it stands
\*   sync          TRUE for the pass the event loop runs itself
\*   dirty, view   its session has written inside a transaction still open;
\*                 `view` is the database as that transaction sees it
\*   all_tracks    ids of db.query(Track).all(), `tracks` the loaded objects
\*   seen          seen_track_ids
\*   duplicate_groups   ids of the groups created, in order
\*   exc           the exception in flight, "" for none
\*   result        what find_all_duplicates returned
NoTracks == [t \in TrackIds |-> NoTrack]

NoScan ==
    [pc |-> "unborn", sync |-> FALSE, dirty |-> FALSE, view |-> NoStore,
     all_tracks |-> <<>>, tracks |-> NoTracks, seen |-> {},
     duplicate_groups |-> <<>>, exc |-> "", result |-> NoData]

ScanIds == 1..MaxScans

NoSnapshot == to_dict([reset EXCEPT !.phase = ""])

NoReply ==
    [route |-> "", scanning |-> FALSE, progress |-> NoSnapshot,
     result |-> NoData, error |-> ""]

\* no pass was ever started
ScanIdle ==
    /\ progress = reset
    /\ scan_result = NoScanResult
    /\ threads = [i \in ScanIds |-> NoScan]
    /\ reply = NoReply

\* ------------------------------------------------------------------ library
\* The tags of the library's files; a layout says which files are copies of
\* one another (share a content hash).
Layouts ==
    { [t \in TrackIds |-> "H1"],
      [t \in TrackIds |-> IF t <= 2 THEN "H1" ELSE "H2"] }

CatalogTrack(t, hash, plays) ==
    [present |-> TRUE, file_hash |-> hash, title |-> "Song",
     duration_ms |-> 180000 + (t - 1) * 1000,
     title_normalized |-> IF t % 2 = 1 THEN "song" ELSE "",
     artist_normalized |-> "x",
     album_normalized |-> IF t % 2 = 0 THEN "album" ELSE "",
     bitrate |-> IF t % 2 = 1 THEN 320 ELSE 128,
     sample_rate |-> IF t % 3 = 0 THEN 48000 ELSE 44100,
     format |-> IF t % 3 = 2 THEN "FLAC" ELSE "MP3",
     file_size |-> t * 1048576,
     metadata_completeness |-> 0,
     artwork_path |-> IF t % 3 = 0 THEN "cover.jpg" ELSE "",
     year |-> IF t % 2 = 0 THEN 1999 ELSE None,
     genre |-> IF t % 3 = 1 THEN "rock" ELSE "",
     album |-> IF t % 2 = 0 THEN "Album" ELSE "",
     artist |-> "X",
     track_number |-> IF t % 3 = 2 THEN t ELSE 0,
     play_count |-> plays]

PlayCounts == {None} \cup (0..MaxPlayCount)

\* The library with its user data, before any detection pass
Library(layout, plays, liked, listed) ==
    [tracks |-> [t \in TrackIds |-> CatalogTrack(t, layout[t], plays[t])],
     hist |-> [t \in TrackIds |-> IF OrZero(plays[t]) > 0 THEN t ELSE None],
     pt |-> [p \in PlaylistIds |-> [t \in TrackIds |-> IF t \in listed THEN t ELSE None]],
     likes |-> [t \in TrackIds |-> IF t \in liked THEN t ELSE None],
     groups |-> [g \in GroupIds |-> NoGroup]]

\* ... and after one detection pass over it
Detected(st) ==
    LET ids == AllTrackIds(st)
        ctx0 == [view |-> ClearUnresolved(st), seen |-> {}, duplicate_groups |-> <<>>,
                 exc |-> ""]
        ctx1 == PassPhase(ctx0, st.tracks, ids, "hash")
        ctx2 == PassPhase(ctx1, st.tracks, ids, "fuzzy")
    IN PassPhase(ctx2, st.tracks, ids, "duration").view

\* The libraries a run starts from: every assignment of play counts with no
\* favorite and no playlist, and every choice of favorites and of playlist
\* members with play counts 1, null, 1, ...
UserData ==
    { [plays |-> p, liked |-> {}, listed |-> {}] : p \in [TrackIds -> PlayCounts] }
    \cup
    { [plays |-> [t \in TrackIds |-> IF t % 2 = 1 THEN 1 ELSE None],
       liked |-> l, listed |-> m] : l \in SUBSET TrackIds, m \in SUBSET TrackIds }

InitMerge ==
    /\ \E layout \in Layouts, u \in UserData :
          db = Detected(Library(layout, u.plays, u.liked, u.listed))
    /\ files = TrackIds
    /\ loop = IdleLoop
    /\ resp = NoResp
    /\ now = 0
    /\ faults = 0
    /\ ScanIdle

\* ------------------------------------------------------------------ handlers
\* Requests name a group that exists or one that does not (all missing ids
\* behave alike), any track or a missing one, and whether to delete files.
GroupChoices(st) == {g \in GroupIds : st.groups[g].present} \cup {GhostId}

TrackChoices == TrackIds \cup {GhostId}

\* os.remove succeeds on every file, or fails on the file of track 2
RmFails(df) == IF df THEN {{}, {2}} ELSE {{}}

\* routes/duplicates.py merge_duplicates: POST /duplicates/merge.  get_db
\* gives the request its own session and closes it afterwards.
MergeRequest(g, k, df, rmfail, fault) ==
    /\ loop.pc = "idle"
    /\ now < MaxOps
    /\ fault > 0 => faults < MaxFaults
    /\ faults' = IF fault > 0 THEN faults + 1 ELSE faults
    /\ LET r == merge_duplicates(db, NewSession(db), files, now + 1, g, k, df, rmfail, fault)
       IN /\ db' = r.db
          /\ files' = r.files
          /\ resp' = MergeResp("merge", r, k)
          /\ now' = IF r.ok THEN now + 1 ELSE now
    /\ loop' = [IdleLoop EXCEPT !.sess = NewSession(db')]
    /\ UNCHANGED scanvars

\* routes/duplicates.py ignore_duplicate_group: POST /duplicates/{id}/ignore
IgnoreRequest(g) ==
    /\ loop.pc = "idle"
    /\ now < MaxOps
    /\ LET r == ignore_group(db, now + 1, g)
       IN /\ db' = r.db
          /\ resp' = [NoResp EXCEPT !.route = "ignore", !.ok = r.ok, !.error = r.error]
          /\ now' = IF r.ok THEN now + 1 ELSE now
    /\ loop' = [IdleLoop EXCEPT !.sess = NewSession(db')]
    /\ UNCHANGED <<files, faults>>
    /\ UNCHANGED scanvars

\* routes/duplicates.py bulk_merge_duplicates: POST /duplicates/merge/bulk.
\* One session serves every request of the list; an exception of one
\* request is caught and the loop goes on (lines 164-174).
BulkBegin ==
    /\ loop.pc = "idle"
    /\ now < MaxOps
    /\ loop' = [IdleLoop EXCEPT !.pc = "bulk"]
    /\ UNCHANGED <<db, files, resp, now, faults>>
    /\ UNCHANGED scanvars

BulkItem(g, k, df, rmfail, fault) ==
    /\ loop.pc = "bulk"
    /\ now < MaxOps
    /\ fault > 0 => faults < MaxFaults
    /\ faults' = IF fault > 0 THEN faults + 1 ELSE faults
    /\ LET r == merge_duplicates(db, loop.sess, files, now + 1, g, k, df, rmfail, fault)
       IN /\ db' = r.db
          /\ files' = r.files
          /\ resp' = MergeResp("bulk", r, k)
          /\ now' = IF r.ok THEN now + 1 ELSE now
          /\ loop' = [loop EXCEPT !.sess = r.sess]
    /\ UNCHANGED scanvars

BulkEnd ==
    /\ loop.pc = "bulk"
    /\ loop' = [IdleLoop EXCEPT !.sess = NewSession(db)]
    /\ UNCHANGED <<db, files, resp, now, faults>>
    /\ UNCHANGED scanvars

NextMerge ==
    \/ \E g \in GroupChoices(db), k \in TrackChoices, df \in BOOLEAN :
          \E rmfail \in RmFails(df) : MergeRequest(g, k, df, rmfail, 0)
    \/ \E g \in GroupChoices(db) : IgnoreRequest(g)
    \/ BulkBegin
    \/ \E g \in GroupChoices(db), k \in TrackChoices, df \in BOOLEAN :
          \E rmfail \in RmFails(df) : BulkItem(g, k, df, rmfail, 0)
    \/ BulkEnd

SpecMerge == InitMerge /\ [][NextMerge]_vars

\* The same handlers over a storage that may fail: a query of the merge loop
\* may raise.  POST /duplicates/merge lets the exception through and get_db
\* closes the session; the bulk route catches it and carries on.
FaultPoints == 1..(NTracks - 1)

\* a failure of os.remove and a failure of the storage are not combined
FaultChoices(rmfail) == IF rmfail = {} THEN {0} \cup FaultPoints ELSE {0}

NextFault ==
    \/ \E g \in GroupChoices(db), k \in TrackChoices, df \in BOOLEAN :
          \E rmfail \in RmFails(df) : \E fault \in FaultChoices(rmfail) :
              MergeRequest(g, k, df, rmfail, fault)
    \/ \E g \in GroupChoices(db) : IgnoreRequest(g)
    \/ BulkBegin
    \/ \E g \in GroupChoices(db), k \in TrackChoices, df \in BOOLEAN :
          \E rmfail \in RmFails(df) : \E fault \in FaultChoices(rmfail) :
              BulkItem(g, k, df, rmfail, fault)
    \/ BulkEnd

\* ... started from the libraries that carry favorites and playlist rows
InitFault ==
    /\ \E layout \in Layouts, u \in {x \in UserData : x.liked # {} /\ x.listed = x.liked} :
          db = Detected(Library(layout, u.plays, u.liked, u.listed))
    /\ files = TrackIds
    /\ loop = IdleLoop
    /\ resp = NoResp
    /\ now = 0
    /\ faults = 0
    /\ ScanIdle

SpecFault == InitFault /\ [][NextFault]_vars

\* ------------------------------------------------------------------ scan routes
\* a rescan that never looks at is_running
rescan_duplicates_NoGuard(p, background) ==
    IF background THEN "background" ELSE "sync"

\* routes/duplicates.py:262-278 rescan_duplicates: what the handler does
rescan_duplicates(p, background) ==
    IF p.is_running THEN "running"
    ELSE IF background THEN "background"
    ELSE "sync"

\* routes/duplicates.py:72-122 find_duplicates: what the handler does
find_duplicates(p, sr, st, refresh, background) ==
    IF refresh
    THEN IF p.is_running THEN "running"
         ELSE IF background THEN "background"
         ELSE "sync"
    ELSE IF sr.completed /\ sr.data # NoData THEN "result"
    ELSE IF Unresolved(st) = {}
         THEN IF ~p.is_running THEN "background" ELSE "running"
         ELSE "cached"

Unborn == {i \in ScanIds : threads[i].pc = "unborn"}

\* the session of an idle event loop is the one the next request will get
LoopSees(dbv) == IF loop.pc = "bulk" THEN loop ELSE [loop EXCEPT !.sess = NewSession(dbv)]

\* What a start request does once it has chosen its branch `d`.  The two
\* branches that answer {"scanning": True, "progress": ...} build the answer
\* in a second step (ScanReply): the scan threads run between the two.
StartBranch(route, d) ==
    CASE d = "running" ->
            /\ loop' = [loop EXCEPT !.pc = "reply", !.route = route, !.was_running = TRUE]
            /\ UNCHANGED <<scan_result, threads, reply>>
      [] d = "background" ->
            /\ Unborn # {}
            /\ scan_result' = NoScanResult
            /\ threads' = [threads EXCEPT
                  ![CHOOSE i \in Unborn : \A j \in Unborn : i <= j].pc = "spawned"]
            /\ loop' = [loop EXCEPT !.pc = "reply", !.route = route]
            /\ UNCHANGED reply
      [] d = "sync" ->
            /\ Unborn # {}
            /\ threads' = [threads EXCEPT
                  ![CHOOSE i \in Unborn : \A j \in Unborn : i <= j] =
                      [NoScan EXCEPT !.pc = "call", !.sync = TRUE]]
            /\ loop' = [loop EXCEPT !.pc = "sync", !.route = route]
            /\ UNCHANGED <<scan_result, reply>>
      [] d = "result" ->
            /\ reply' = [NoReply EXCEPT !.route = route, !.result = scan_result.data]
            /\ scan_result' = NoScanResult
            /\ UNCHANGED <<loop, threads>>
      [] OTHER ->
            /\ reply' = IF GroupsReadable(db, SetToSeq(Unresolved(db)))
                        THEN [NoReply EXCEPT !.route = route,
                                 !.result = GroupResult(db, SetToSeq(Unresolved(db)))]
                        ELSE [NoReply EXCEPT !.route = route, !.error = "AttributeError"]
            /\ UNCHANGED <<loop, scan_result, threads>>

\* GET /duplicates
FindDuplicatesRequest(refresh, background) ==
    /\ loop.pc = "idle"
    /\ StartBranch(IF refresh THEN "refresh" ELSE "list",
                   find_duplicates(progress, scan_result, db, refresh, background))
    /\ UNCHANGED <<db, files, resp, now, faults, progress>>

\* POST /duplicates/rescan
RescanRequest(background) ==
    /\ loop.pc = "idle"
    /\ StartBranch("rescan", rescan_duplicates(progress, background))
    /\ UNCHANGED <<db, files, resp, now, faults, progress>>

\* the return {"scanning": True, "progress": duplicate_detection_progress.to_dict()}
\* of lines 75-78, 86-89, 113-116, 263-266, 273-276
ScanReply ==
    /\ loop.pc = "reply"
    /\ reply' = [NoReply EXCEPT !.route = loop.route, !.scanning = TRUE,
                                !.progress = to_dict(progress)]
    /\ loop' = IdleLoop
    /\ UNCHANGED <<db, files, resp, now, faults, progress, scan_result, threads>>

\* routes/duplicates.py get_scan_progress: GET /duplicates/progress
ProgressRequest ==
    /\ loop.pc = "idle"
    /\ reply' = [NoReply EXCEPT !.route = "progress", !.progress = to_dict(progress)]
    /\ UNCHANGED <<db, files, loop, resp, now, faults, progress, scan_result, threads>>

\* ------------------------------------------------------------------ scan threads
\* SQLite has one writer: a pass whose transaction has written holds the
\* write lock until it commits or rolls back
Locked(i) == \E j \in ScanIds \ {i} : threads[j].dirty

\* inside find_all_duplicates: line 113 has run, line 194 has not
InPass(i) == threads[i].pc \in {"clear", "hash", "fuzzy", "duration", "commit", "except", "finally"}

\* routes/duplicates.py:36-41, the thread up to its call of find_all_duplicates
RunScanBegin(i) ==
    /\ threads[i].pc = "spawned"
    /\ scan_result' = NoScanResult
    /\ progress' = reset
    /\ threads' = [threads EXCEPT ![i].pc = "call"]
    /\ UNCHANGED <<db, files, loop, resp, now, faults, reply>>

\* deduplication.py:113-115
ScanStart(i) ==
    /\ threads[i].pc = "call"
    /\ progress' = [progress EXCEPT !.is_running = TRUE, !.phase = "initializing",
                                    !.error = ""]
    /\ threads' = [threads EXCEPT ![i].pc = "clear"]
    /\ UNCHANGED <<db, files, loop, resp, now, faults, scan_result, reply>>

\* deduplication.py:118-129: clear the unresolved groups, commit, load the tracks
ScanClear(i) ==
    /\ threads[i].pc = "clear"
    /\ ~Locked(i)
    /\ db' = ClearUnresolved(db)
    /\ threads' = [threads EXCEPT ![i].pc = "hash",
                                  ![i].all_tracks = AllTrackIds(db'),
                                  ![i].tracks = db'.tracks]
    /\ progress' = [progress EXCEPT !.total_tracks = Len(AllTrackIds(db'))]
    /\ loop' = LoopSees(db')
    /\ UNCHANGED <<files, resp, now, faults, scan_result, reply>>

\* a pass whose duration phase is followed by the hash phase again
NextPc_Again(pc) ==
    CASE pc = "hash" -> "fuzzy"
      [] pc = "fuzzy" -> "duration"
      [] OTHER -> "hash"

\* deduplication.py:132, 148, 164, 179: the phases in their order
NextPc(pc) ==
    CASE pc = "hash" -> "fuzzy"
      [] pc = "fuzzy" -> "duration"
      [] OTHER -> "commit"

\* the groups a phase creates, started from what the pass's session sees
PhaseOutcome(th, dbv) ==
    PassPhase([view |-> IF th.dirty THEN th.view ELSE dbv, seen |-> th.seen,
               duplicate_groups |-> th.duplicate_groups, exc |-> ""],
              th.tracks, th.all_tracks, th.pc)

PhaseWrites(th, dbv) ==
    Let(PhaseOutcome(th, dbv), LAMBDA ctx :
        \/ ctx.exc # ""
        \/ Len(ctx.duplicate_groups) > Len(th.duplicate_groups))

\* deduplication.py:131-145, 147-161, 163-177: one phase.  A failed flush
\* rolls the transaction back.
ScanPhase(i) ==
    /\ threads[i].pc \in {"hash", "fuzzy", "duration"}
    /\ \E ctx \in {PhaseOutcome(threads[i], db)} :
       LET th == threads[i]
           p1 == PhaseProgress(progress, th.tracks, th.all_tracks, th.seen, th.pc)
           writes == \/ ctx.exc # ""
                     \/ Len(ctx.duplicate_groups) > Len(th.duplicate_groups)
           dirty == th.dirty \/ writes
       IN /\ writes => ~Locked(i)
          /\ threads' = [threads EXCEPT ![i] =
                IF ctx.exc # ""
                THEN [th EXCEPT !.pc = "except", !.exc = ctx.exc, !.dirty = FALSE,
                                !.view = NoStore, !.seen = ctx.seen,
                                !.duplicate_groups = ctx.duplicate_groups]
                ELSE [th EXCEPT !.pc = NextPc(th.pc), !.dirty = dirty,
                                !.view = IF dirty THEN ctx.view ELSE NoStore,
                                !.seen = ctx.seen,
                                !.duplicate_groups = ctx.duplicate_groups]]
          /\ progress' = IF Len(ctx.duplicate_groups) > Len(th.duplicate_groups)
                         THEN GroupsProgress(p1, ctx.duplicate_groups) ELSE p1
    /\ UNCHANGED <<db, files, loop, resp, now, faults, scan_result, reply>>

\* a write that finds the database locked by another pass for longer than
\* the busy timeout: sqlite3.OperationalError
ScanBusy(i) ==
    /\ Locked(i)
    /\ \/ threads[i].pc = "clear" /\ progress' = progress
       \/ /\ threads[i].pc \in {"hash", "fuzzy", "duration"}
          /\ PhaseWrites(threads[i], db)
          /\ progress' = PhaseProgress(progress, threads[i].tracks, threads[i].all_tracks,
                                       threads[i].seen, threads[i].pc)
    /\ threads' = [threads EXCEPT ![i].pc = "except", ![i].exc = "OperationalError",
                                  ![i].dirty = FALSE, ![i].view = NoStore]
    /\ UNCHANGED <<db, files, loop, resp, now, faults, scan_result, reply>>

\* deduplication.py:179-188: commit, phase complete, build the answer
ScanCommit(i) ==
    /\ threads[i].pc = "commit"
    /\ LET th == threads[i]
       IN /\ db' = IF th.dirty THEN th.view ELSE db
          /\ threads' = [threads EXCEPT ![i] =
                IF GroupsReadable(db', th.duplicate_groups)
                THEN [th EXCEPT !.pc = "finally", !.dirty = FALSE, !.view = NoStore,
                                !.result = GroupResult(db', th.duplicate_groups)]
                ELSE [th EXCEPT !.pc = "except", !.dirty = FALSE, !.view = NoStore,
                                !.exc = "AttributeError"]]
    /\ progress' = [progress EXCEPT !.phase = "complete",
                                    !.processed_tracks = progress.total_tracks]
    /\ loop' = LoopSees(db')
    /\ UNCHANGED <<files, resp, now, faults, scan_result, reply>>

\* deduplication.py:189-192
ScanExcept(i) ==
    /\ threads[i].pc = "except"
    /\ progress' = [progress EXCEPT !.error = threads[i].exc, !.phase = "error"]
    /\ threads' = [threads EXCEPT ![i].pc = "finally"]
    /\ UNCHANGED <<db, files, loop, resp, now, faults, scan_result, reply>>

\* deduplication.py:193-194
ScanFinally(i) ==
    /\ threads[i].pc = "finally"
    /\ progress' = [progress EXCEPT !.is_running = FALSE]
    /\ threads' = [threads EXCEPT ![i].pc = "return"]
    /\ UNCHANGED <<db, files, loop, resp, now, faults, scan_result, reply>>

\* routes/duplicates.py:43-50, the thread after find_all_duplicates
RunScanEnd(i) ==
    /\ threads[i].pc = "return"
    /\ ~threads[i].sync
    /\ IF threads[i].exc = ""
       THEN /\ scan_result' = [data |-> threads[i].result, completed |-> TRUE]
            /\ progress' = progress
       ELSE /\ scan_result' = [data |-> NoData, completed |-> TRUE]
            /\ progress' = [progress EXCEPT !.error = threads[i].exc]
    /\ threads' = [threads EXCEPT ![i].pc = "done"]
    /\ UNCHANGED <<db, files, loop, resp, now, faults, reply>>

\* routes/duplicates.py:92 and 278: the request with background=false
\* answers with what find_all_duplicates returned, or fails with what it raised
SyncReturn(i) ==
    /\ threads[i].pc = "return"
    /\ threads[i].sync
    /\ reply' = IF threads[i].exc = ""
                THEN [NoReply EXCEPT !.route = loop.route, !.result = threads[i].result]
                ELSE [NoReply EXCEPT !.route = loop.route, !.error = threads[i].exc]
    /\ threads' = [threads EXCEPT ![i].pc = "done"]
    /\ loop' = IdleLoop
    /\ UNCHANGED <<db, files, resp, now, faults, progress, scan_result>>

NextScan ==
    \/ \E refresh \in BOOLEAN, background \in BOOLEAN :
          FindDuplicatesRequest(refresh, background)
    \/ \E background \in BOOLEAN : RescanRequest(background)
    \/ ScanReply
    \/ ProgressRequest
    \/ \E i \in ScanIds :
          \/ RunScanBegin(i)
          \/ ScanStart(i)
          \/ ScanClear(i)
          \/ ScanPhase(i)
          \/ ScanBusy(i)
          \/ ScanCommit(i)
          \/ ScanExcept(i)
          \/ ScanFinally(i)
          \/ RunScanEnd(i)
          \/ SyncReturn(i)

\* the libraries a scan starts from: hashed copies, or files without a
\* hash; never scanned, scanned once, or scanned with the first group ignored
ScanLayouts == {[t \in TrackIds |-> "H1"], [t \in TrackIds |-> ""]}

ScanLibraries ==
    LET libs == {Library(layout, [t \in TrackIds |-> None], {}, {}) : layout \in ScanLayouts}
    IN libs \cup {Detected(l) : l \in libs}
            \cup {ignore_group(Detected(l), 0, 1).db : l \in libs}

InitScan ==
    /\ db \in ScanLibraries
    /\ files = TrackIds
    /\ loop = IdleLoop
    /\ resp = NoResp
    /\ now = 0
    /\ faults = 0
    /\ ScanIdle

SpecScan == InitScan /\ [][NextScan]_vars

\* ------------------------------------------------------------------ delete
\* routes/duplicates.py:233-242 of delete_duplicate: the rows that name the
\* track are deleted from play_history, playlist_tracks,
\* duplicate_group_members and liked_songs, then the track; the groups
\* themselves are not looked at
delete_duplicate(st, track_id) ==
    [tracks |-> [st.tracks EXCEPT ![track_id] = NoTrack],
     hist |-> [i \in TrackIds |-> IF st.hist[i] = track_id THEN None ELSE st.hist[i]],
     pt |-> [p \in PlaylistIds |-> [i \in TrackIds |->
                IF st.pt[p][i] = track_id THEN None ELSE st.pt[p][i]]],
     likes |-> [i \in TrackIds |-> IF st.likes[i] = track_id THEN None ELSE st.likes[i]],
     groups |-> [g \in GroupIds |->
                [st.groups[g] EXCEPT !.members =
                    SelectSeq(st.groups[g].members, LAMBDA m : m.track_id # track_id)]]]

\* routes/duplicates.py delete_duplicate: DELETE /duplicates/{track_id}
DeleteRequest(t, delete_file, rmfail) ==
    /\ loop.pc = "idle"
    /\ IF t \in TrackIds /\ db.tracks[t].present
       THEN /\ db' = delete_duplicate(db, t)
            /\ files' = IF delete_file /\ t \in files /\ t \notin rmfail
                        THEN files \ {t} ELSE files
            /\ resp' = [NoResp EXCEPT !.route = "delete", !.ok = TRUE]
       ELSE /\ resp' = [NoResp EXCEPT !.route = "delete", !.error = "Track not found"]
            /\ UNCHANGED <<db, files>>
    /\ loop' = [IdleLoop EXCEPT !.sess = NewSession(db')]
    /\ UNCHANGED <<now, faults>>
    /\ UNCHANGED scanvars

\* Merges, ignores, deletions and detection passes run by the event loop
\* itself (POST /duplicates/rescan?background=false), one request at a time.
NextDelete ==
    \/ \E g \in GroupChoices(db), k \in TrackChoices, df \in BOOLEAN :
          \E rmfail \in RmFails(df) : MergeRequest(g, k, df, rmfail, 0)
    \/ \E g \in GroupChoices(db) : IgnoreRequest(g)
    \/ \E t \in TrackChoices, delete_file \in BOOLEAN :
          \E rmfail \in RmFails(delete_file) : DeleteRequest(t, delete_file, rmfail)
    \/ RescanRequest(FALSE)
    \/ \E i \in ScanIds :
          \/ ScanStart(i)
          \/ ScanClear(i)
          \/ ScanPhase(i)
          \/ ScanCommit(i)
          \/ ScanExcept(i)
          \/ ScanFinally(i)
          \/ SyncReturn(i)

InitDelete ==
    /\ \E layout \in Layouts, liked \in {{1, 2}} :
          db = Detected(Library(layout, [t \in TrackIds |-> IF t % 2 = 1 THEN 1 ELSE None],
                                liked, liked))
    /\ files = TrackIds
    /\ loop = IdleLoop
    /\ resp = NoResp
    /\ now = 0
    /\ faults = 0
    /\ ScanIdle

SpecDelete == InitDelete /\ [][NextDelete]_vars

\* ------------------------------------------------------------------ detect
\* Libraries for the detection pass alone: which files share a hash or have
\* none, what duration each track has (null, 3:00 or 3:03), whether every
\* track carries an album or only the even ones, and whether the files
\* all differ in bitrate, format, size and tags or the second is like the
\* third.
DetectLayouts ==
    { <<"", "", "">>, <<"H1", "H1", "H1">>, <<"H1", "H1", "">>,
      <<"H1", "H1", "H2">>, <<"", "H1", "H1">>, <<"H1", "", "H1">> }

DetectDurations == {None, 180000, 183000}

DetectTrack(t, hash, duration_ms, albums, alike) ==
    [CatalogTrack(IF alike /\ t = 2 THEN 3 ELSE t, hash, None) EXCEPT
        !.duration_ms = duration_ms,
        !.album = IF albums THEN "Album" ELSE @]

DetectLibraries ==
    { [NoStore EXCEPT !.tracks =
          [t \in TrackIds |-> DetectTrack(t, IF t <= 3 THEN layout[t] ELSE "", d[t],
                                          albums, alike)]] :
      layout \in DetectLayouts, d \in [TrackIds -> DetectDurations],
      albums \in BOOLEAN, alike \in BOOLEAN }

InitDetect ==
    /\ db \in DetectLibraries
    /\ files = TrackIds
    /\ loop = IdleLoop
    /\ resp = NoResp
    /\ now = 0
    /\ faults = 0
    /\ ScanIdle

\* detection passes run by the event loop (background=false), and ignores
NextDetect ==
    \/ RescanRequest(FALSE)
    \/ \E g \in GroupChoices(db) : IgnoreRequest(g)
    \/ \E i \in ScanIds :
          \/ ScanStart(i)
          \/ ScanClear(i)
          \/ ScanPhase(i)
          \/ ScanCommit(i)
          \/ ScanExcept(i)
          \/ ScanFinally(i)
          \/ SyncReturn(i)

SpecDetect == InitDetect /\ [][NextDetect]_vars

\* ------------------------------------------------------------------ poll
\* deduplication.py:41-51: the entries of the dictionary to_dict builds, in
\* the order in which the dict display evaluates them
PollFields ==
    <<"is_running", "phase", "total_tracks", "processed_tracks", "current_track",
      "progress", "groups_found", "duplicates_found", "error">>

\* routes/duplicates.py get_scan_progress, one attribute read of to_dict at
\* a time: the tracker has no lock and the scan threads run between the
\* reads.  loop.route names the entry to be read next; the answer is sent
\* after the last one.
PollRead(k) ==
    /\ IF k = 1 THEN loop.pc = "idle"
                ELSE loop.pc = "to_dict" /\ loop.route = PollFields[k]
    /\ reply' = [(IF k = 1 THEN [NoReply EXCEPT !.route = "progress"] ELSE reply)
                    EXCEPT !.progress[PollFields[k]] = to_dict(progress)[PollFields[k]]]
    /\ loop' = IF k = Len(PollFields) THEN IdleLoop
               ELSE [loop EXCEPT !.pc = "to_dict", !.route = PollFields[k + 1]]
    /\ UNCHANGED <<db, files, resp, now, faults, progress, scan_result, threads>>

\* background passes started by POST /duplicates/rescan, and pollers
NextPoll ==
    \/ RescanRequest(TRUE)
    \/ ScanReply
    \/ \E k \in 1..Len(PollFields) : PollRead(k)
    \/ \E i \in ScanIds :
          \/ RunScanBegin(i)
          \/ ScanStart(i)
          \/ ScanClear(i)
          \/ ScanPhase(i)
          \/ ScanBusy(i)
          \/ ScanCommit(i)
          \/ ScanExcept(i)
          \/ ScanFinally(i)
          \/ RunScanEnd(i)

\* hashed copies never scanned, or scanned with their group ignored
PollLibraries ==
    LET lib == Library([t \in TrackIds |-> "H1"], [t \in TrackIds |-> None], {}, {})
    IN {lib, ignore_group(Detected(lib), 0, 1).db}

InitPoll ==
    /\ db \in PollLibraries
    /\ files = TrackIds
    /\ loop = IdleLoop
    /\ resp = NoResp
    /\ now = 0
    /\ faults = 0
    /\ ScanIdle

SpecPoll == InitPoll /\ [][NextPoll]_vars

\* ------------------------------------------------------------------ stats
NoStats ==
    [total_groups |-> None, unresolved |-> None, resolved |-> None, ignored |-> None,
     potential_space_savings_bytes |-> None]

\* db.query(DuplicateGroup).filter(DuplicateGroup.status == status).count()
CountStatus(st, status) ==
    Cardinality({g \in GroupIds : st.groups[g].present /\ st.groups[g].status = status})

RECURSIVE SeqMax(_)
SeqMax(s) ==
    IF Len(s) = 1 THEN Head(s)
    ELSE IF Head(s) >= SeqMax(Tail(s)) THEN Head(s) ELSE SeqMax(Tail(s))

\* deduplication.py:561: sizes = [m.track.file_size or 0 for m in group.members]
Sizes(st, g) ==
    [k \in 1..Len(st.groups[g].members) |->
        OrZero(st.tracks[st.groups[g].members[k].track_id].file_size)]

\* deduplication.py:549-571 over the groups `gs` for the savings.  m.track
\* of a member row whose track row is gone is None: AttributeError.
Stats(st, gs) ==
    IF \E g \in gs : \E k \in 1..Len(st.groups[g].members) :
          ~st.tracks[st.groups[g].members[k].track_id].present
    THEN [error |-> "AttributeError", stats |-> NoStats]
    ELSE [error |-> "",
          stats |->
            [total_groups |-> Cardinality({g \in GroupIds : st.groups[g].present}),
             unresolved |-> CountStatus(st, "unresolved"),
             resolved |-> CountStatus(st, "resolved"),
             ignored |-> CountStatus(st, "ignored"),
             potential_space_savings_bytes |->
                SeqSum([i \in 1..Cardinality(gs) |->
                    LET sizes == Sizes(st, SetToSeq(gs)[i])
                    IN IF sizes = <<>> THEN 0 ELSE SeqSum(sizes) - SeqMax(sizes)])]]

\* savings counted over the groups that are unresolved or ignored
get_stats_WithIgnored(st) ==
    Stats(st, {g \in GroupIds : st.groups[g].present /\ st.groups[g].status # "resolved"})

\* deduplication.py get_stats
get_stats(st) == Stats(st, Unresolved(st))

\* routes/duplicates.py get_duplicate_stats: GET /duplicates/stats
StatsRequest ==
    /\ loop.pc = "idle"
    /\ reply' = [route |-> "stats", scanning |-> FALSE, progress |-> NoSnapshot,
                 result |-> NoData, error |-> get_stats(db).error,
                 stats |-> get_stats(db).stats]
    /\ UNCHANGED <<db, files, loop, resp, now, faults, progress, scan_result, threads>>

\* Merges, ignores, detection passes run by the request itself
\* (POST /duplicates/rescan?background=false) and the statistics route, one
\* request at a time
NextStats ==
    \/ \E g \in GroupChoices(db), k \in TrackChoices : MergeRequest(g, k, FALSE, {}, 0)
    \/ \E g \in GroupChoices(db) : IgnoreRequest(g)
    \/ RescanRequest(FALSE)
    \/ StatsRequest
    \/ \E i \in ScanIds :
          \/ ScanStart(i)
          \/ ScanClear(i)
          \/ ScanPhase(i)
          \/ ScanCommit(i)
          \/ ScanExcept(i)
          \/ ScanFinally(i)
          \/ SyncReturn(i)

\* the tracks whose file_size is null
NullSizes == {{}, {1}, TrackIds}

\* libraries scanned once, some of whose tracks have no file size
StatsLibraries ==
    { Detected([Library(layout, [t \in TrackIds |-> None], {}, {}) EXCEPT
          !.tracks = [t \in TrackIds |->
              [@[t] EXCEPT !.file_size = IF t \in nulls THEN None ELSE @]]]) :
      layout \in Layouts, nulls \in NullSizes }

InitStats ==
    /\ db \in StatsLibraries
    /\ files = TrackIds
    /\ loop = IdleLoop
    /\ resp = NoResp
    /\ now = 0
    /\ faults = 0
    /\ ScanIdle

SpecStats == InitStats /\ [][NextStats]_vars

\* ------------------------------------------------------------------ normalizer
\* Text is a sequence of characters, each a one-symbol string ("endash" is
\* U+2013).  The texts tried are made of at most MaxChunks pieces:
MaxChunks == 5

Chunks ==
    { <<"T", "h", "e">>, <<"t", "h", "e">>, <<"a">>, <<"a", "n">>, <<" ">>,
      <<"b", "a", "n", "d">>, <<"endash">> }

RECURSIVE Texts(_)
Texts(n) ==
    IF n = 0 THEN {<<>>}
    ELSE Texts(n - 1) \cup {c \o t : c \in Chunks, t \in Texts(n - 1)}

\* normalizer.py:66-69: NFKC leaves these characters alone; str.lower()
Lower(s) == [i \in 1..Len(s) |-> IF s[i] = "T" THEN "t" ELSE s[i]]

RECURSIVE MapPunctuation(_)
\* normalizer.py:72-73 with PUNCTUATION_MAP (lines 25-37): the dash
MapPunctuation(s) ==
    IF s = <<>> THEN <<>>
    ELSE (IF Head(s) = "endash" THEN <<"-">> ELSE <<Head(s)>>) \o MapPunctuation(Tail(s))

IsSpace(c) == c = " "

RECURSIVE LStrip(_)
LStrip(s) == IF s # <<>> /\ IsSpace(Head(s)) THEN LStrip(Tail(s)) ELSE s

RECURSIVE RStrip(_)
RStrip(s) ==
    IF s # <<>> /\ IsSpace(s[Len(s)]) THEN RStrip(SubSeq(s, 1, Len(s) - 1)) ELSE s

\* str.strip()
Strip(s) == RStrip(LStrip(s))

RECURSIVE CollapseSpaces(_)
\* normalizer.py:81: re.sub(r"\s+", " ", normalized)
CollapseSpaces(s) ==
    IF s = <<>> THEN <<>>
    ELSE IF IsSpace(Head(s)) THEN <<" ">> \o CollapseSpaces(LStrip(s))
    ELSE <<Head(s)>> \o CollapseSpaces(Tail(s))

\* normalizer.py:18-22
ARTICLE_PATTERNS == << <<"t", "h", "e">>, <<"a">>, <<"a", "n">> >>

\* re.match(r"^the\s+", normalized, re.IGNORECASE) and the like
ArticleMatch(s, article) ==
    /\ Len(s) > Len(article)
    /\ Lower(SubSeq(s, 1, Len(article))) = article
    /\ IsSpace(s[Len(article) + 1])

\* normalizer.py:87-94: the first pattern that matches decides (break);
\* rest = normalized[match.end():].strip()
MoveArticle(s) ==
    LET hits == {k \in 1..Len(ARTICLE_PATTERNS) : ArticleMatch(s, ARTICLE_PATTERNS[k])}
        k == CHOOSE x \in hits : \A y \in hits : x <= y
        rest == Strip(SubSeq(s, Len(ARTICLE_PATTERNS[k]) + 1, Len(s)))
    IN IF hits = {} \/ rest = <<>> THEN s
       ELSE rest \o <<",", " ">> \o ARTICLE_PATTERNS[k]

\* normalizer.py normalize_string with remove_featuring = False, as
\* normalize_artist, normalize_album (move_article_to_end = True) and
\* normalize_title (False) call it.  None is <<>>.
normalize_text(value, move_article_to_end) ==
    IF value = <<>> THEN <<>>
    ELSE LET normalized == Strip(CollapseSpaces(MapPunctuation(Lower(value))))
         IN IF move_article_to_end THEN MoveArticle(normalized) ELSE normalized

\* routes/normalize.py preview_normalization: GET /normalize/preview with
\* a text for the artist (move_article_to_end) or for the title; the
\* second request sends what the first one answered.
PreviewRequest ==
    /\ reply.route = "preview"
    /\ reply.calls < 2
    /\ LET text == IF reply.calls = 0 THEN reply.original ELSE reply.normalized
       IN reply' = [reply EXCEPT !.original = text,
                       !.normalized = normalize_text(text, reply.move_article_to_end),
                       !.calls = @ + 1]
    /\ UNCHANGED <<db, files, loop, resp, now, faults, progress, scan_result, threads>>

NextNorm == PreviewRequest

InitNorm ==
    /\ db = NoStore
    /\ files = {}
    /\ loop = IdleLoop
    /\ resp = NoResp
    /\ now = 0
    /\ faults = 0
    /\ progress = reset
    /\ scan_result = NoScanResult
    /\ threads = [i \in ScanIds |-> NoScan]
    /\ \E text \in Texts(MaxChunks), move_article_to_end \in BOOLEAN :
          reply = [route |-> "preview", move_article_to_end |-> move_article_to_end,
                   original |-> text, normalized |-> <<>>, calls |-> 0]

SpecNorm == InitNorm /\ [][NextNorm]_vars

\* ------------------------------------------------------------------ duration
\* Libraries for the duration phase: two copies and a third file or three
\* files without a hash; every track with no duration, a duration of 0,
\* 3:00, 3:02.5 or 3:03; the third track titled like the others,
\* differently, or not at all.
BucketLayouts == { <<"", "", "">>, <<"H1", "H1", "">> }

BucketDurations == {None, 0, 180000, 182500, 183000}

BucketTitles == {"Song", "Tune", ""}

BucketLibraries ==
    { [NoStore EXCEPT !.tracks =
          [t \in TrackIds |->
              [CatalogTrack(t, IF t <= 3 THEN layout[t] ELSE "", None) EXCEPT
                  !.duration_ms = d[t],
                  !.title = IF t = 3 THEN title ELSE @,
                  !.title_normalized =
                      IF t # 3 THEN @
                      ELSE IF title = "Song" THEN "song"
                      ELSE IF title = "Tune" THEN "tune" ELSE ""]]] :
      layout \in BucketLayouts, d \in [TrackIds -> BucketDurations],
      title \in BucketTitles }

InitBucket ==
    /\ db \in BucketLibraries
    /\ files = TrackIds
    /\ loop = IdleLoop
    /\ resp = NoResp
    /\ now = 0
    /\ faults = 0
    /\ ScanIdle

SpecBucket == InitBucket /\ [][NextDetect]_vars

\* ------------------------------------------------------------------ fairness
\* every step a pass can take
PassStep(i) ==
    \/ RunScanBegin(i)
    \/ ScanStart(i)
    \/ ScanClear(i)
    \/ ScanPhase(i)
    \/ ScanBusy(i)
    \/ ScanCommit(i)
    \/ ScanExcept(i)
    \/ ScanFinally(i)
    \/ RunScanEnd(i)
    \/ SyncReturn(i)

\* passes started by POST /duplicates/rescan, in the background or not
NextLive ==
    \/ \E background \in BOOLEAN : RescanRequest(background)
    \/ ScanReply
    \/ \E i \in ScanIds : PassStep(i)

\* A thread that can run is eventually run, and the event loop goes on with
\* the pass it runs itself: no statement of find_all_duplicates waits for
\* anything but the database lock, and that wait ends with the lock's
\* release or with the busy timeout.
SpecLive ==
    /\ InitPoll
    /\ [][NextLive]_vars
    /\ \A i \in ScanIds : WF_vars(PassStep(i))

\* ------------------------------------------------------------------ claims
GroupExists(st, g) == g \in GroupIds /\ st.groups[g].present

TrackExists(st, t) == t \in TrackIds /\ st.tracks[t].present

MemberIds(st, g) == {st.groups[g].members[i].track_id : i \in 1..Len(st.groups[g].members)}

\* the three failed preconditions of merge
MergeInvalid(st, g, k) ==
    \/ ~GroupExists(st, g)
    \/ ~TrackExists(st, k)
    \/ k \notin MemberIds(st, g)

MergeInvalidReason(st, g, k) ==
    IF ~GroupExists(st, g) THEN "Duplicate group not found"
    ELSE IF ~TrackExists(st, k) THEN "Track to keep not found"
    ELSE "Track to keep is not in this duplicate group"

\* a step that is merge(g, k, ...) called by either route, storage not failing
MergeStep(g, k) ==
    \E df \in BOOLEAN : \E rmfail \in RmFails(df) :
        \/ MergeRequest(g, k, df, rmfail, 0)
        \/ BulkItem(g, k, df, rmfail, 0)

\* C1: at most one detection pass is inside find_all_duplicates at any time,
\* whatever the order of start requests and of the steps of the passes.
C1_SinglePass ==
    Cardinality({i \in ScanIds : InPass(i)}) <= 1

\* a refresh or a rescan request being taken up by its handler
StartStep ==
    \E background \in BOOLEAN :
        FindDuplicatesRequest(TRUE, background) \/ RescanRequest(background)

\* C2: a refresh or rescan request whose handler reads is_running = true
\* starts no pass and changes neither the tracker nor any group; its answer
\* is scanning = true with the tracker's snapshot, and no error.
C2_StartWhileRunning ==
    [][/\ (progress.is_running /\ StartStep) =>
             /\ threads' = threads
             /\ progress' = progress
             /\ scan_result' = scan_result
             /\ db' = db
             /\ loop'.pc = "reply"
       /\ (loop.pc = "reply" /\ loop.was_running /\ loop.route \in {"refresh", "rescan"}) =>
             (ScanReply =>
                 /\ reply'.scanning
                 /\ reply'.error = ""
                 /\ reply'.progress = to_dict(progress)
                 /\ threads' = threads
                 /\ progress' = progress
                 /\ db' = db)]_vars

\* C2 witness: one pass is running, a rescan or refresh request has read
\* is_running = true and is about to answer, and no second pass was started
C2_Witness ==
    /\ loop.pc = "reply"
    /\ loop.was_running
    /\ loop.route \in {"refresh", "rescan"}
    /\ progress.is_running
    /\ Cardinality(ScanIds \ Unborn) = 1

\* C3: merge fails with an error that carries a reason, and changes no row of
\* any table and no file, when the group does not exist, when the keep track
\* does not exist, and when the keep track is not a member of the group; the
\* reason is the one of the failed check whenever the session took the query.
C3_MergePreconditions ==
    [][\A g \in GroupChoices(db), k \in TrackChoices :
          MergeInvalid(db, g, k) =>
             (MergeStep(g, k) =>
                 /\ ~resp'.ok
                 /\ resp'.error # ""
                 /\ loop.sess.state = "active" => resp'.error = MergeInvalidReason(db, g, k)
                 /\ db' = db
                 /\ files' = files)]_vars

\* C3 witness: each of the three checks has rejected a merge
C3_Witness ==
    /\ resp.route \in {"merge", "bulk"}
    /\ ~resp.ok
    /\ resp.error = "Track to keep is not in this duplicate group"

Terminal(st, g) == GroupExists(st, g) /\ st.groups[g].status \in {"resolved", "ignored"}

\* C4: resolved and ignored are terminal: a merge or an ignore of a group in
\* either status fails, and leaves its status, resolved_at and
\* master_track_id as they were.
C4_TerminalStates ==
    [][\A g \in GroupIds :
          Terminal(db, g) =>
             /\ db'.groups[g].status = db.groups[g].status
             /\ db'.groups[g].resolved_at = db.groups[g].resolved_at
             /\ db'.groups[g].master_track_id = db.groups[g].master_track_id
             /\ IgnoreRequest(g) => ~resp'.ok
             /\ \A k \in TrackChoices : MergeStep(g, k) => ~resp'.ok]_vars

\* C5: ignore of an existing unresolved group sets status = ignored and
\* resolved_at, and leaves every track, history row, playlist row, favorite,
\* member row and every other group as it was; ignore of a group that does
\* not exist fails with an error and changes nothing.
C5_IgnoreFrame ==
    [][\A g \in GroupChoices(db) :
          IgnoreRequest(g) =>
             IF GroupExists(db, g)
             THEN db.groups[g].status = "unresolved" =>
                    /\ resp'.ok
                    /\ db'.groups[g].status = "ignored"
                    /\ db'.groups[g].resolved_at = now'
                    /\ db'.groups[g].resolved_at # None
                    /\ db'.groups[g].members = db.groups[g].members
                    /\ db'.groups[g].master_track_id = db.groups[g].master_track_id
                    /\ \A h \in GroupIds \ {g} : db'.groups[h] = db.groups[h]
                    /\ db'.tracks = db.tracks
                    /\ db'.hist = db.hist
                    /\ db'.pt = db.pt
                    /\ db'.likes = db.likes
                    /\ files' = files
             ELSE /\ ~resp'.ok
                  /\ resp'.error # ""
                  /\ db' = db
                  /\ files' = files]_vars

\* C5 witness: an unresolved group has been ignored, its tracks still there
C5_Witness ==
    /\ resp.route = "ignore"
    /\ resp.ok
    /\ \E g \in GroupIds :
          /\ db.groups[g].present
          /\ db.groups[g].status = "ignored"
          /\ db.groups[g].resolved_at = now
          /\ \A t \in MemberIds(db, g) : db.tracks[t].present

PlaySum(st, S) == SeqSum([i \in 1..Cardinality(S) |-> OrZero(st.tracks[SetToSeq(S)[i]].play_count)])

Present(st) == {t \in TrackIds : st.tracks[t].present}

\* C6: after a successful merge the keep track's play_count is the sum of
\* the play counts its group's member tracks had before (null as 0), the
\* member tracks other than the keep track are gone from the library, the
\* keep track and every track outside the group are still there.
C6_MergeConservation ==
    [][\A g \in GroupChoices(db), k \in TrackIds :
          (resp'.ok /\ resp'.kept_track_id = k /\ GroupExists(db, g)) =>
             (MergeStep(g, k) =>
                 /\ db'.tracks[k].present
                 /\ db'.tracks[k].play_count = PlaySum(db, MemberIds(db, g) \cap Present(db))
                 /\ Present(db') = Present(db) \ (MemberIds(db, g) \ {k})
                 /\ resp'.deleted_tracks = Cardinality(MemberIds(db, g)) - 1)]_vars

\* C6 witness: a group of three has been merged, two tracks are gone and the
\* keep track carries the play counts of all three, a null one among them
C6_Witness ==
    /\ resp.ok
    /\ resp.route \in {"merge", "bulk"}
    /\ resp.deleted_tracks = 2
    /\ Cardinality(Present(db)) = NTracks - 2
    /\ db.tracks[resp.kept_track_id].play_count = 2
    /\ \E g \in GroupIds : db.groups[g].present /\ db.groups[g].status = "resolved"
          /\ Cardinality(MemberIds(db, g)) = 3

LikeRows(st, t) == {i \in TrackIds : st.likes[i] = t}

MergeValid(st, g, k) == GroupExists(st, g) /\ TrackExists(st, k) /\ k \in MemberIds(st, g)

\* C7: for every group and every set of favorited members, merge succeeds,
\* and afterwards exactly one favorite row references the keep track if a
\* member was favorited (none if none was) and none references a discard.
C7_MergeFavorites ==
    [][\A g \in GroupChoices(db), k \in TrackIds :
          (MergeValid(db, g, k) /\ db.groups[g].status = "unresolved") =>
             (MergeStep(g, k) =>
                 /\ resp'.ok
                 /\ Cardinality(LikeRows(db', k)) =
                       (IF \E t \in MemberIds(db, g) : LikeRows(db, t) # {} THEN 1 ELSE 0)
                 /\ \A t \in MemberIds(db, g) \ {k} : LikeRows(db', t) = {})]_vars

ListRows(st, p, t) == {i \in TrackIds : st.pt[p][i] = t}

\* C8: if every playlist holds at most one row per member track before the
\* merge, then after a merge that succeeds every playlist that held the keep
\* track or a discard holds exactly one row for the keep track and none for
\* a discard.
C8_MergePlaylists ==
    [][\A g \in GroupChoices(db), k \in TrackIds :
          (/\ MergeValid(db, g, k)
           /\ db.groups[g].status = "unresolved"
           /\ \A p \in PlaylistIds, t \in MemberIds(db, g) : Cardinality(ListRows(db, p, t)) <= 1
           /\ resp'.ok) =>
             (MergeStep(g, k) =>
                 \A p \in PlaylistIds :
                    (\E t \in MemberIds(db, g) : ListRows(db, p, t) # {}) =>
                       /\ Cardinality(ListRows(db', p, k)) = 1
                       /\ \A t \in MemberIds(db, g) \ {k} : ListRows(db', p, t) = {})]_vars

\* a step that is merge(g, k, ...) called by either route, the storage
\* failing or not
AnyMergeStep(g, k) ==
    \E df \in BOOLEAN, fault \in {0} \cup FaultPoints :
        \/ MergeRequest(g, k, df, {}, fault)
        \/ BulkItem(g, k, df, {}, fault)
        \/ fault = 0 /\ \E rmfail \in RmFails(df) :
              MergeRequest(g, k, df, rmfail, 0) \/ BulkItem(g, k, df, rmfail, 0)

\* C9: merge is all-or-nothing on stored data: a merge that raises commits
\* nothing, and what a later merge on the same session commits is what that
\* merge alone does to the database, with none of the mutations of the
\* merge that raised.
C9_MergeAllOrNothing ==
    [][\A g \in GroupChoices(db), k \in TrackChoices :
          AnyMergeStep(g, k) =>
             IF resp'.ok
             THEN \E df \in BOOLEAN :
                     db' = merge_duplicates(db, NewSession(db), files, now + 1,
                                            g, k, df, {}, 0).db
             ELSE db' = db]_vars

\* C10: a track's file is removed only once the merge that discards the
\* track has committed: no file is gone while its track is still stored.
C10_FilesRemovedAfterCommit ==
    \A t \in TrackIds : t \notin files => ~db.tracks[t].present

\* a step that is merge(g, k, delete_files = true) by either route in which
\* os.remove fails on the files of the tracks in `rmfail`
RmFailStep(g, k, rmfail) ==
    MergeRequest(g, k, TRUE, rmfail, 0) \/ BulkItem(g, k, TRUE, rmfail, 0)

\* what the same request answers when nothing fails and the files of the
\* tracks in `rmfail` are not on disk (os.path.exists is false for them)
QuietAnswer(g, k, rmfail) ==
    MergeResp(IF loop.pc = "bulk" THEN "bulk" ELSE "merge",
              merge_duplicates(db, loop.sess, files \ rmfail, now + 1, g, k, TRUE, {}, 0),
              k)

\* C11: when os.remove fails on the file of a discard, the merge does to the
\* database what it does when no removal fails (every discard is processed
\* and the result is committed and successful), the file stays and is not in
\* deleted_files, and the answer carries a report of the failure: it is not
\* the answer of a merge in which no removal was attempted on that file.
C11_FileFailureReported ==
    [][\A g \in GroupChoices(db), k \in TrackIds, rmfail \in RmFails(TRUE) \ {{}} :
          (/\ MergeValid(db, g, k)
           /\ rmfail \subseteq (MemberIds(db, g) \ {k}) \cap Present(db) \cap files
           /\ merge_duplicates(db, loop.sess, files, now + 1, g, k, TRUE, {}, 0).ok) =>
             (RmFailStep(g, k, rmfail) =>
                 /\ resp'.ok
                 /\ db' = merge_duplicates(db, loop.sess, files, now + 1, g, k, TRUE, {}, 0).db
                 /\ rmfail \subseteq files'
                 /\ rmfail \cap SeqRange(resp'.deleted_files) = {}
                 /\ resp' # QuietAnswer(g, k, rmfail))]_vars

\* the same without the last clause: everything but the report
C11_FileFailureTolerated ==
    [][\A g \in GroupChoices(db), k \in TrackIds, rmfail \in RmFails(TRUE) \ {{}} :
          (/\ MergeValid(db, g, k)
           /\ rmfail \subseteq (MemberIds(db, g) \ {k}) \cap Present(db) \cap files
           /\ merge_duplicates(db, loop.sess, files, now + 1, g, k, TRUE, {}, 0).ok) =>
             (RmFailStep(g, k, rmfail) =>
                 /\ resp'.ok
                 /\ db' = merge_duplicates(db, loop.sess, files, now + 1, g, k, TRUE, {}, 0).db
                 /\ rmfail \subseteq files'
                 /\ rmfail \cap SeqRange(resp'.deleted_files) = {})]_vars

\* what merge(g, k, df) does when it is the only request of its list: it
\* runs on a session that no failed request has used
AloneOutcome(g, k, df, rmfail) ==
    merge_duplicates(db, NewSession(db), files, now + 1, g, k, df, rmfail, 0)

\* C12: the requests of a bulk merge are independent: a request that fails
\* leaves the stored data as it was, and every request, whatever failed
\* before it in the list, has the outcome (success or error, and the
\* database it commits) it has when the failed requests are left out.
C12_BulkIndependent ==
    [][\A g \in GroupChoices(db), k \in TrackChoices, df \in BOOLEAN :
          \A rmfail \in RmFails(df) :
             BulkItem(g, k, df, rmfail, 0) =>
                /\ resp'.ok = AloneOutcome(g, k, df, rmfail).ok
                /\ resp'.error = AloneOutcome(g, k, df, rmfail).error
                /\ db' = AloneOutcome(g, k, df, rmfail).db
                /\ ~resp'.ok => db' = db]_vars

\* C13: every unresolved group has at least two member rows, after any
\* sequence of detection passes, merges, ignores and deletions of single
\* tracks.
C13_UnresolvedHasTwo ==
    \A g \in Unresolved(db) : Len(db.groups[g].members) >= 2

\* C14: a detection pass deletes every group that is unresolved, with all
\* its member rows, before it creates any group; no step of the pass changes
\* a resolved or ignored group or its member rows.
C14_ClearUnresolvedOnly ==
    [][\A i \in ScanIds :
          /\ ScanClear(i) =>
                /\ threads[i].duplicate_groups = <<>>
                /\ ~threads[i].dirty
                /\ \A g \in Unresolved(db) : db'.groups[g] = NoGroup
                /\ \A g \in GroupIds \ Unresolved(db) : db'.groups[g] = db.groups[g]
          /\ (ScanPhase(i) \/ ScanCommit(i)) =>
                /\ threads[i].pc # "clear"
                /\ \A g \in GroupIds : Terminal(db, g) => db'.groups[g] = db.groups[g]]_vars

\* C14 witness: the second pass has just cleared the group the first pass
\* had created, and the ignored group of before is still there with its
\* member rows
C14_Witness ==
    /\ threads[1].pc = "done"
    /\ threads[1].exc = ""
    /\ threads[1].duplicate_groups # <<>>
    /\ threads[2].pc = "hash"
    /\ threads[2].duplicate_groups = <<>>
    /\ \A k \in 1..Len(threads[1].duplicate_groups) :
          ~db.groups[threads[1].duplicate_groups[k]].present
    /\ Unresolved(db) = {}
    /\ \E g \in GroupIds : /\ Terminal(db, g)
                           /\ db.groups[g].status = "ignored"
                           /\ Len(db.groups[g].members) >= 2

\* the unresolved groups that hold track t
GroupsOf(st, t) == {g \in Unresolved(st) : t \in MemberIds(st, g)}

\* the groups thread i creates in the step, in the view of its session
NewGroups(i) ==
    {threads'[i].duplicate_groups[k] :
        k \in (Len(threads[i].duplicate_groups) + 1)..Len(threads'[i].duplicate_groups)}

\* C15: the phases run in the order exact, fuzzy, duration; no cluster a
\* phase's partitioner returns holds a track that an earlier phase put in a
\* group, every group a phase that does not raise creates is made of tracks
\* no earlier group of the pass holds, and in the stored data every track is a member of at
\* most one unresolved group.
C15_PhasesExclusive ==
    [][/\ \A i \in ScanIds :
             ScanPhase(i) =>
                LET th == threads[i]
                    clusters == PhaseClusters(th.tracks, th.all_tracks, th.seen, th.pc)
                IN /\ threads'[i].pc \in {NextPc(th.pc), "except"}
                   /\ \A k \in 1..Len(clusters) : SeqRange(clusters[k]) \cap th.seen = {}
                   /\ \A g \in (IF threads'[i].pc = "except" THEN {} ELSE NewGroups(i)) :
                         /\ MemberIds(threads'[i].view, g) \cap th.seen = {}
                         /\ threads'[i].view.groups[g].detection_type = PhaseKind(th.pc)[1]
                         /\ \A h \in NewGroups(i) \ {g} :
                               MemberIds(threads'[i].view, g)
                                  \cap MemberIds(threads'[i].view, h) = {}
                   /\ th.seen \subseteq threads'[i].seen
       /\ \A t \in TrackIds : Cardinality(GroupsOf(db', t)) <= 1]_vars

\* C15 witness: a pass has completed with an exact_hash group, and a track
\* outside it has the title and the duration bucket of one of its members:
\* the duration phase would have clustered the two had the member been
\* offered to it
C15_Witness ==
    \E i \in ScanIds, g \in Unresolved(db), t \in TrackIds :
        /\ threads[i].pc = "done"
        /\ threads[i].exc = ""
        /\ g \in SeqRange(threads[i].duplicate_groups)
        /\ db.groups[g].detection_type = "exact_hash"
        /\ db.tracks[t].present
        /\ t \notin MemberIds(db, g)
        /\ GroupsOf(db, t) = {}
        /\ DurationKey(db.tracks[t]) # <<>>
        /\ \E m \in MemberIds(db, g) : DurationKey(db.tracks[m]) = DurationKey(db.tracks[t])

\* the unresolved groups of detection_type exact_hash
ExactGroups(st) == {g \in Unresolved(st) : st.groups[g].detection_type = "exact_hash"}

\* C16: when a pass commits and completes, any two tracks with the same
\* non-null content hash are members of one group of type exact_hash, no
\* track without a hash is a member of an exact_hash group, and the members
\* of an exact_hash group all have one hash.
C16_ExactHashGroups ==
    [][\A i \in ScanIds :
          (ScanCommit(i) /\ threads'[i].pc = "finally") =>
             /\ \A t, u \in Present(db') :
                   (t # u /\ db'.tracks[t].file_hash # ""
                          /\ db'.tracks[t].file_hash = db'.tracks[u].file_hash) =>
                      \E g \in ExactGroups(db') : {t, u} \subseteq MemberIds(db', g)
             /\ \A g \in ExactGroups(db') : \A t, u \in MemberIds(db', g) :
                   /\ db'.tracks[t].file_hash # ""
                   /\ db'.tracks[t].file_hash = db'.tracks[u].file_hash]_vars

\* C16 witness: a pass has completed over a library where two files share a
\* hash and a third has none; the two are an exact_hash group and the third,
\* though it has their title and duration bucket, is in no exact_hash group
C16_Witness ==
    \E i \in ScanIds, g \in ExactGroups(db), t \in Present(db) :
        /\ threads[i].pc = "done"
        /\ threads[i].exc = ""
        /\ db.tracks[t].file_hash = ""
        /\ Cardinality(MemberIds(db, g)) = 2
        /\ t \notin MemberIds(db, g)
        /\ \A m \in MemberIds(db, g) : DurationKey(db.tracks[m]) = DurationKey(db.tracks[t])

\* two tracks with the same normalized title, the same normalized artist
\* and the same duration
SameSong(track1, track2) ==
    /\ Norm(track1.title_normalized, track1.title) # ""
    /\ Norm(track1.title_normalized, track1.title) = Norm(track2.title_normalized, track2.title)
    /\ Norm(track1.artist_normalized, track1.artist) # ""
    /\ Norm(track1.artist_normalized, track1.artist) = Norm(track2.artist_normalized, track2.artist)
    /\ ~Falsy(track1.duration_ms)
    /\ track1.duration_ms = track2.duration_ms

\* C17: two tracks left over by the exact phase that have the same
\* normalized title, the same normalized artist and the same duration have
\* a similarity of at least 0.85, with or without an album, and the fuzzy
\* phase puts them in one fuzzy_metadata group.
C17_FuzzyClustersSameSong ==
    [][\A i \in ScanIds :
          (ScanPhase(i) /\ threads[i].pc = "fuzzy" /\ threads'[i].pc # "except") =>
             \A t, u \in SeqRange(Remaining(threads[i].all_tracks, threads[i].seen)) :
                (t # u /\ SameSong(threads[i].tracks[t], threads[i].tracks[u])) =>
                   /\ Similar(threads[i].tracks[t], threads[i].tracks[u])
                   /\ \E g \in NewGroups(i) :
                         /\ {t, u} \subseteq MemberIds(threads'[i].view, g)
                         /\ threads'[i].view.groups[g].detection_type = "fuzzy_metadata"]_vars

\* every order in which the tracks of a library can be handed to a partitioner
Orders(st) ==
    {o \in [1..Cardinality(Present(st)) -> Present(st)] :
        \A a, b \in 1..Cardinality(Present(st)) : a # b => o[a] # o[b]}

\* two tracks that both have a duration, more than the tolerance apart
DurationsApart(track1, track2) ==
    /\ ~Falsy(track1.duration_ms)
    /\ ~Falsy(track2.duration_ms)
    /\ Abs(track1.duration_ms - track2.duration_ms) > DURATION_TOLERANCE_MS

Pos(s, x) == CHOOSE k \in 1..Len(s) : s[k] = x

\* the member rows of group g flagged is_master
Masters(st, g) ==
    {k \in 1..Len(st.groups[g].members) : st.groups[g].members[k].is_master}

\* C19: a group just created has exactly one member row with is_master =
\* true; the rows carry the quality scores of their tracks; the master's
\* score is greater than or equal to every other member's, among the
\* members with that score it is the one that comes first in the input
\* order of the cluster, and master_track_id is its track.
C19_MasterIsBest ==
    [][\A i \in ScanIds :
          (ScanPhase(i) /\ threads'[i].pc # "except") =>
             \A g \in NewGroups(i) :
                LET grp == threads'[i].view.groups[g]
                    order == threads[i].all_tracks
                IN /\ Cardinality(Masters(threads'[i].view, g)) = 1
                   /\ \A k \in 1..Len(grp.members) :
                         grp.members[k].quality_score =
                            calculate_quality_score(threads[i].tracks[grp.members[k].track_id])
                   /\ \A m \in Masters(threads'[i].view, g) :
                         /\ grp.master_track_id = grp.members[m].track_id
                         /\ \A k \in 1..Len(grp.members) :
                               /\ grp.members[m].quality_score >= grp.members[k].quality_score
                               /\ grp.members[k].quality_score = grp.members[m].quality_score
                                     => Pos(order, grp.members[m].track_id)
                                           <= Pos(order, grp.members[k].track_id)]_vars

\* C19 witness: a pass has created a group of three in which the two best
\* members have the same score and the third, though first in the input, a
\* lower one; the master is the earlier of the two best
C19_Witness ==
    \E i \in ScanIds, g \in GroupIds :
        /\ threads[i].pc \in {"fuzzy", "duration", "commit"}
        /\ threads[i].dirty
        /\ g \in SeqRange(threads[i].duplicate_groups)
        /\ LET mem == threads[i].view.groups[g].members
           IN /\ Len(mem) = 3
              /\ mem[1].is_master
              /\ mem[1].quality_score = mem[2].quality_score
              /\ mem[2].quality_score > mem[3].quality_score
              /\ mem[1].track_id < mem[2].track_id
              /\ mem[3].track_id < mem[1].track_id

\* C20: when a pass in which a step has raised leaves find_all_duplicates,
\* the tracker has phase = error, an error message and is_running = false,
\* and the caller gets the exception: the request that ran the pass fails
\* with it, the background thread records it.
C20_FailureReported ==
    [][\A i \in ScanIds :
          /\ (ScanFinally(i) /\ threads[i].exc # "") =>
                /\ progress'.phase = "error"
                /\ progress'.error # ""
                /\ ~progress'.is_running
                /\ threads'[i].exc = threads[i].exc
          /\ (SyncReturn(i) /\ threads[i].exc # "") => reply'.error = threads[i].exc
          /\ (RunScanEnd(i) /\ threads[i].exc # "") =>
                /\ progress'.error = threads[i].exc
                /\ scan_result' = [data |-> NoData, completed |-> TRUE]]_vars

\* a pass run by a request has raised and returned; the tracker shows the
\* error and the request has failed with it
FailedSyncPass ==
    \E i \in ScanIds :
        /\ threads[i].pc = "done"
        /\ threads[i].sync
        /\ threads[i].exc = "IntegrityError"
        /\ progress.phase = "error"
        /\ progress.error = "IntegrityError"
        /\ ~progress.is_running
        /\ reply.error = "IntegrityError"

\* C21: when a pass commits and completes, the tracker's groups_found is the
\* number of groups the pass created and its duplicates_found is the sum
\* over those groups of the member count less one, whatever an earlier pass
\* left in the tracker.
C21_TrackerCountsThisPass ==
    [][\A i \in ScanIds :
          (ScanCommit(i) /\ threads'[i].pc = "finally") =>
             /\ progress'.phase = "complete"
             /\ progress'.groups_found = Len(threads[i].duplicate_groups)
             /\ progress'.duplicates_found =
                   GroupResult(db', threads[i].duplicate_groups).total_duplicates]_vars

\* the same for groups_found alone
C21_GroupsFoundThisPass ==
    [][\A i \in ScanIds :
          (ScanCommit(i) /\ threads'[i].pc = "finally") =>
             progress'.groups_found = Len(threads[i].duplicate_groups)]_vars

\* the event loop is between the first and the last read of one snapshot
Reading(l) == l.pc = "to_dict"

\* C22: while a snapshot is being built no write to phase, processed_tracks,
\* groups_found or duplicates_found takes effect, so that every snapshot
\* returned holds the values the tracker had at one instant.
C22_SnapshotAtomic ==
    [][Reading(loop) =>
          /\ progress'.phase = progress.phase
          /\ progress'.processed_tracks = progress.processed_tracks
          /\ progress'.groups_found = progress.groups_found
          /\ progress'.duplicates_found = progress.duplicates_found]_vars

\* what every value of the tracker satisfies when passes do not overlap:
\* total_tracks is written after phase has left "idle", and the counts of
\* groups_found and duplicates_found are written together
TrackerShape(p) ==
    /\ p.phase = "idle" => p.total_tracks = 0
    /\ p.groups_found = 0 <=> p.duplicates_found = 0

\* the snapshots returned have the shape of a value of the tracker
SnapshotShape ==
    (reply.route = "progress" /\ loop.pc = "idle") => TrackerShape(reply.progress)

\* the member rows of unresolved groups whose track row is gone
Dangling(st) ==
    {<<g, k>> \in GroupIds \X (1..NTracks) :
        /\ g \in Unresolved(st)
        /\ k <= Len(st.groups[g].members)
        /\ ~st.tracks[st.groups[g].members[k].track_id].present}

\* C28: every member row of an unresolved group references a track that
\* exists.
C28_MembersExist == Dangling(db) = {}

\* a track's file size, null counted as 0
Size0(st, t) == IF st.tracks[t].file_size = None THEN 0 ELSE st.tracks[t].file_size

RECURSIVE SumSizes(_, _)
SumSizes(st, S) ==
    IF S = {} THEN 0
    ELSE LET t == CHOOSE x \in S : TRUE IN Size0(st, t) + SumSizes(st, S \ {t})

\* the sizes of a group's member tracks less the largest of them
Savings(st, g) ==
    IF MemberIds(st, g) = {} THEN 0
    ELSE SumSizes(st, MemberIds(st, g))
         - (CHOOSE m \in {Size0(st, t) : t \in MemberIds(st, g)} :
               \A t \in MemberIds(st, g) : m >= Size0(st, t))

RECURSIVE SumSavings(_, _)
SumSavings(st, G) ==
    IF G = {} THEN 0
    ELSE LET g == CHOOSE x \in G : TRUE IN Savings(st, g) + SumSavings(st, G \ {g})

\* C23: the statistics route answers, without an error, with
\* potential_space_savings_bytes equal to the sum over the unresolved groups
\* of (sum of the member file sizes - the largest member file size), a null
\* size counted as 0, and with total_groups = unresolved + resolved + ignored.
C23_StatsSavings ==
    [][StatsRequest =>
          /\ reply'.error = ""
          /\ reply'.stats.potential_space_savings_bytes = SumSavings(db, Unresolved(db))
          /\ reply'.stats.total_groups =
                reply'.stats.unresolved + reply'.stats.resolved + reply'.stats.ignored
          /\ reply'.stats.unresolved = Cardinality(Unresolved(db))]_vars

\* C23 witness: the statistics were asked for after a merge and a new pass,
\* with a resolved group and an unresolved group of two tracks with a file
\* size in the database, and the savings reported are not 0
C23_Witness ==
    /\ reply.route = "stats"
    /\ reply.error = ""
    /\ reply.stats.resolved = 1
    /\ reply.stats.unresolved = 1
    /\ reply.stats.potential_space_savings_bytes > 0
    /\ \E g \in Unresolved(db) : \A t \in MemberIds(db, g) : db.tracks[t].file_size # None

\* the statistics were asked for while an unresolved group had three
\* members, one of them without a file size, and the savings reported are
\* the smaller of the two other sizes
NullSizeStats ==
    /\ reply.route = "stats"
    /\ reply.error = ""
    /\ \E g \in Unresolved(db) :
          /\ MemberIds(db, g) = {1, 2, 3}
          /\ db.tracks[1].file_size = None
          /\ reply.stats.potential_space_savings_bytes = db.tracks[2].file_size

\* C24: normalizing a text that is itself the result of a normalization
\* gives that text back, with and without article movement.
C24_NormalizeIdempotent ==
    [][(PreviewRequest /\ reply.calls = 1) => reply'.normalized = reply.normalized]_vars

\* the same for titles, whose articles stay where they are
TitleIdempotent ==
    [][(PreviewRequest /\ reply.calls = 1 /\ ~reply.move_article_to_end)
          => reply'.normalized = reply.normalized]_vars

\* whole multiples of 5000 ms around the durations of a library
BucketValues == {k * 5000 : k \in 0..40}

\* the multiple of 5000 nearest to d, the even multiple when d is halfway
NearestBucket(d) ==
    CHOOSE b \in BucketValues :
        \A c \in BucketValues \ {b} :
            \/ Abs(d - b) < Abs(d - c)
            \/ Abs(d - b) = Abs(d - c) /\ (b \div 5000) % 2 = 0

\* a track with a title and a non-zero duration
Timed(track) == track.title # "" /\ track.duration_ms # None /\ track.duration_ms # 0

\* two such tracks with one normalized title and one bucket
SameBucket(track1, track2) ==
    /\ Timed(track1)
    /\ Timed(track2)
    /\ Norm(track1.title_normalized, track1.title)
          = Norm(track2.title_normalized, track2.title)
    /\ NearestBucket(track1.duration_ms) = NearestBucket(track2.duration_ms)

\* C25: the groups the duration phase creates are of type duration_match and
\* made of tracks with a title and a non-zero duration that share their
\* normalized title and their bucket and that no earlier phase claimed; and
\* two tracks no earlier phase claimed that share title and bucket are put
\* in one of these groups.
C25_DurationGroups ==
    [][\A i \in ScanIds :
          (ScanPhase(i) /\ threads[i].pc = "duration" /\ threads'[i].pc # "except") =>
             LET th == threads[i]
                 view == threads'[i].view
             IN /\ \A g \in NewGroups(i) :
                      /\ view.groups[g].detection_type = "duration_match"
                      /\ MemberIds(view, g) \cap th.seen = {}
                      /\ \A t, u \in MemberIds(view, g) :
                            SameBucket(th.tracks[t], th.tracks[u])
                /\ \A t, u \in SeqRange(th.all_tracks) \ th.seen :
                      (t # u /\ SameBucket(th.tracks[t], th.tracks[u])) =>
                         \E g \in NewGroups(i) : {t, u} \subseteq MemberIds(view, g)]_vars

\* C25 witness: a pass has completed with a duration_match group of two
\* tracks of 3:00 and 3:02.5, and a third track that is in no group though
\* its duration is within half a second of a member's, or though it has
\* the members' title
C25_Witness ==
    \E i \in ScanIds, g \in Unresolved(db), t \in Present(db) :
        /\ threads[i].pc = "done"
        /\ threads[i].exc = ""
        /\ db.groups[g].detection_type = "duration_match"
        /\ {db.tracks[m].duration_ms : m \in MemberIds(db, g)} = {180000, 182500}
        /\ GroupsOf(db, t) = {}
        /\ db.tracks[t].duration_ms = 183000
        /\ db.tracks[t].title = "Song"

\* C26: a pass run while no other pass is active leaves find_all_duplicates
\* with phase = complete and without an exception, whatever passes, ignores
\* and merges came before it.
C26_PassCompletes ==
    [][\A i \in ScanIds :
          (ScanFinally(i) /\ \A j \in ScanIds \ {i} : ~InPass(j) /\ threads[j].pc # "call") =>
             /\ threads[i].exc = ""
             /\ progress'.phase = "complete"]_vars

\* C27: in every group that has a master_track_id, the member rows flagged
\* is_master are rows of that track.
C27_MasterFlagAgrees ==
    \A g \in GroupIds :
        (db.groups[g].present /\ db.groups[g].master_track_id # None) =>
           \A k \in Masters(db, g) :
              db.groups[g].members[k].track_id = db.groups[g].master_track_id

\* C29: no write of a pass to the tracker lowers processed_tracks or the
\* percentage, and 0 <= processed_tracks <= total_tracks in every state.
C29_ProgressMonotone ==
    [][/\ \A i \in ScanIds :
             (ScanPhase(i) \/ ScanCommit(i)) =>
                /\ progress'.processed_tracks >= progress.processed_tracks
                /\ Percent(progress') >= Percent(progress)
       /\ 0 <= progress'.processed_tracks
       /\ progress'.processed_tracks <= progress'.total_tracks
       /\ Percent(progress') <= 1000]_vars

\* the bounds alone: processed_tracks lies between 0 and total_tracks
ProcessedWithinTotal ==
    /\ 0 <= progress.processed_tracks
    /\ progress.processed_tracks <= progress.total_tracks

\* the pass has been started and has not left find_all_duplicates
Started(i) == threads[i].pc \in {"spawned", "call"} \/ InPass(i)

Ended(i) == threads[i].pc \in {"return", "done"}

\* progress.phase while the pass is in the phase named by pc
PhaseName(pc) ==
    CASE pc = "hash" -> "hash_matching"
      [] pc = "fuzzy" -> "fuzzy_matching"
      [] OTHER -> "duration_matching"

\* C30: a pass that was started eventually leaves find_all_duplicates; on
\* its way it writes the phases in the order hash_matching, fuzzy_matching,
\* duration_matching, it gets to its end only through phase = complete or
\* phase = error, is_running is false when it has ended, and only the start
\* of a pass makes it true.
C30_PassEnds ==
    /\ \A i \in ScanIds : Started(i) ~> Ended(i)
    /\ [][\A i \in ScanIds :
             /\ ScanPhase(i) =>
                   /\ progress'.phase = PhaseName(threads[i].pc)
                   /\ threads'[i].pc \in {NextPc(threads[i].pc), "except"}
             /\ (ScanCommit(i) \/ ScanExcept(i)) =>
                   /\ progress'.phase \in {"complete", "error"}
                   /\ threads'[i].pc \in {"finally", "except"}
             /\ ScanFinally(i) => ~progress'.is_running /\ Ended(i)'
             /\ (~progress.is_running /\ progress'.is_running) =>
                   \E j \in ScanIds : ScanStart(j)]_vars

\* C30 witness: a background pass has ended with phase = complete and
\* another pass has ended with an error; is_running is false
C30_Witness ==
    \E i, j \in ScanIds :
        /\ threads[i].pc = "done"
        /\ ~threads[i].sync
        /\ threads[i].exc = ""
        /\ threads[j].pc = "done"
        /\ threads[j].exc # ""
        /\ progress.phase \in {"complete", "error"}
        /\ ~progress.is_running

====
